---- MODULE Spec2Model ----
(***************************************************************************)
(* The geographic linkage pipeline of the Ascending project:               *)
(*   src/src/converter.py  loaders, link_school_to_tract, link_tract_to_cz *)
(*                         and the linkage driver main()                   *)
(*   src/main.py           the six-step driver and convert_geographic_data *)
(*                                                                         *)
(* Tables are pandas frames: a sequence of column names and a sequence of  *)
(* rows, each row a function from column name to cell.  A cell carries its *)
(* pandas type, because the joins, astype(int) and astype(str) of the code *)
(* behave differently on integers, floats, NaN and strings.  Strings are   *)
(* sequences of one-character strings, so that str(), int() and the CSV    *)
(* text of a value are computed and not assumed.                           *)
(***************************************************************************)
EXTENDS Integers, Sequences, FiniteSets, TLC

VARIABLES
    driver,             \* "converter": converter.main, "mainpy": main.main
    pc,                 \* the stage the driver executes next
    files,              \* the input files: name -> NoFile or a table
    school_identifier,  \* load_school_data's result
    tracts_identifier,  \* load_tract_data's result (the caller's frame)
    school_tracts,      \* link_school_to_tract's result
    tracts_fips,        \* load_demographic_data's result
    cz_id,              \* load_cz_data's result
    tracts_cz,          \* link_tract_to_cz's result
    merged_data,        \* the final left join
    disk,               \* the output directory: file name -> NoFile or CSV
    log,                \* the messages printed/logged, in order
    exit_status,        \* "running", then the way the process ended
    written,            \* history: file name -> the CSV this run wrote
    trace,              \* history: the stages started, in order
    raised,             \* history: <<stage, exception>> of each raise
    \* merge_data.py and regression.py: one County_FIPS value on its way
    fips_pc,            \* the statement that handles the value next
    county_fips,        \* the cell pd.read_csv gave (merge_data.py 55)
    padded,             \* its text after merge_data.py 89, 93
    reparsed,           \* the text parsed as an integer, or the error
    repadded,           \* the integer padded again (regression.py 115)
    \* collect_schools.py: SchoolDataCollector.collect_all_states
    collect_pc,         \* the statement the collector executes next
    level_codes,        \* the argument of collect_all_states
    zip_codes,          \* data/geo/zip_codes.csv: state -> its zip codes
    api,                \* the GreatSchools API: zip -> its pages
    state_no,           \* collect_all_states: index of `state` in STATES
    zip_no,             \* collect_state_data: index of `zip_code`
    page,               \* fetch_schools_by_zip: `page`
    all_schools,        \* fetch_schools_by_zip: `all_schools`
    schools_df,         \* collect_state_data: `schools_df`
    state_data,         \* collect_all_states: `state_data`, in order
    requests,           \* history: the query parameters of each request
    responses,          \* history: what fetch_schools_by_zip returned
    state_files,        \* the CSV files the collector wrote, in order
    \* collect_reviews.py: SchoolReviewsScraper.process_schools_csv
    reviews_pc,         \* the statement process_schools_csv executes next
    input_csv,          \* the file at input_path
    output_csv,         \* the file at output_path: its data rows
    idx,                \* the number of the input row handled next
    successful_count,   \* `successful_count`
    reviews_returned,   \* what process_schools_csv returned or raised
    reviews_log,        \* what process_schools_csv logged, in order
    \* quantity_scraper.py: SchoolScraper.parse_scraped_data
    parse_pc,           \* the statement parse_scraped_data executes next
    json_data,          \* the scraped dictionary, as its items in order
    parse_rows,         \* `rows`
    parsed_df,          \* the DataFrame returned
    \* collect_reviews.py: the URL the review scrapers request
    overview_url,       \* the overview-url cell of an input row
    url_requested,      \* the requests made for it: who asked, and the URL
    \* quantity_scraper.py: SchoolScraper.run
    run_pc,             \* the statement run executes next
    run_input,          \* the input CSV: its rows, and those missing an id or URL
    run_pos,            \* the number of rows of `urls` the loop has handled
    all_data,           \* `all_data`: the ids of the schools scraped
    run_file,           \* the output file: what was written last
    run_log,            \* what run logged, in order
    \* merge_data.py: clean_sentiment in MobilityDataProcessor.run_all
    sentiment_pc,       \* whether clean_sentiment was applied to the cell
    sentiment_cell,     \* a cell of the sentiment_scores column
    cleaned             \* what clean_sentiment returned for it

geoVars == <<driver, pc, files, school_identifier, tracts_identifier,
             school_tracts, tracts_fips, cz_id, tracts_cz, merged_data,
             disk, log, exit_status, written, trace, raised>>

fipsVars == <<fips_pc, county_fips, padded, reparsed, repadded>>

collectVars == <<collect_pc, level_codes, zip_codes, api, state_no, zip_no,
                 page, all_schools, schools_df, state_data, requests,
                 responses, state_files>>

reviewsVars == <<reviews_pc, input_csv, output_csv, idx, successful_count,
                 reviews_returned, reviews_log>>

parseVars == <<parse_pc, json_data, parse_rows, parsed_df>>

urlVars == <<overview_url, url_requested>>

runVars == <<run_pc, run_input, run_pos, all_data, run_file, run_log>>

sentimentVars == <<sentiment_pc, sentiment_cell, cleaned>>

\* The variables of the components other than the linkage pipeline.
otherVars == <<fipsVars, collectVars, reviewsVars, parseVars, urlVars,
               runVars, sentimentVars>>

vars == <<geoVars, otherVars>>

\* What an action of one component leaves alone: the other components.
exceptFips == <<geoVars, collectVars, reviewsVars, parseVars, urlVars,
                runVars, sentimentVars>>
exceptCollect == <<geoVars, fipsVars, reviewsVars, parseVars, urlVars,
                   runVars, sentimentVars>>
exceptReviews == <<geoVars, fipsVars, collectVars, parseVars, urlVars,
                   runVars, sentimentVars>>
exceptParse == <<geoVars, fipsVars, collectVars, reviewsVars, urlVars,
                 runVars, sentimentVars>>
exceptUrl == <<geoVars, fipsVars, collectVars, reviewsVars, parseVars,
               runVars, sentimentVars>>
exceptRun == <<geoVars, fipsVars, collectVars, reviewsVars, parseVars,
               urlVars, sentimentVars>>
exceptSentiment == <<geoVars, fipsVars, collectVars, reviewsVars, parseVars,
                     urlVars, runVars>>

\* No County_FIPS value is being handled.
FipsIdle ==
    /\ fips_pc = "idle"
    /\ county_fips = [k |-> "nan", v |-> 0]
    /\ padded = <<>>
    /\ reparsed = [exc |-> [type |-> "none", arg |-> ""],
                   value |-> [k |-> "nan", v |-> 0]]
    /\ repadded = <<>>

\* No SchoolDataCollector is running.
CollectIdle ==
    /\ collect_pc = "idle"
    /\ level_codes = [k |-> "none", v |-> ""]
    /\ zip_codes = [exists |-> FALSE, zips |-> <<>>]
    /\ api = <<>>
    /\ state_no = 0
    /\ zip_no = 0
    /\ page = 0
    /\ all_schools = <<>>
    /\ schools_df = <<>>
    /\ state_data = <<>>
    /\ requests = <<>>
    /\ responses = <<>>
    /\ state_files = <<>>

\* No SchoolReviewsScraper is running.
ReviewsIdle ==
    /\ reviews_pc = "idle"
    /\ input_csv = [exists |-> FALSE, header |-> FALSE, rows |-> <<>>]
    /\ output_csv = <<>>
    /\ idx = 0
    /\ successful_count = 0
    /\ reviews_returned = [k |-> "none", v |-> 0]
    /\ reviews_log = <<>>

\* No parse_scraped_data call is running.
ParseIdle ==
    /\ parse_pc = "idle"
    /\ json_data = <<>>
    /\ parse_rows = <<>>
    /\ parsed_df = [cols |-> {}, rows |-> <<>>]

\* No review URL is being normalised.
UrlIdle ==
    /\ overview_url = <<>>
    /\ url_requested = <<>>

\* No SchoolScraper is running.
RunIdle ==
    /\ run_pc = "idle"
    /\ run_input = [n |-> 0, missing |-> {}]
    /\ run_pos = 0
    /\ all_data = {}
    /\ run_file = [kind |-> "none", ids |-> {}]
    /\ run_log = <<>>

\* No sentiment_scores cell is being cleaned.
SentimentIdle ==
    /\ sentiment_pc = "idle"
    /\ sentiment_cell = [k |-> "nan", v |-> 0]
    /\ cleaned = [k |-> "nan", v |-> 0]

OthersIdle ==
    /\ FipsIdle
    /\ CollectIdle
    /\ ReviewsIdle
    /\ ParseIdle
    /\ UrlIdle
    /\ RunIdle
    /\ SentimentIdle

-----------------------------------------------------------------------------
(* Bounds of the model.                                                    *)

MaxPoints == 2      \* rows of the school table
MaxTracts == 2      \* rows of the tract table
MaxDemoRows == 2    \* rows of the demographic table
MaxCzRows == 2      \* rows of the commuting-zone table
MaxLinkRows == 2    \* rows of a point-to-region link table given to the join

-----------------------------------------------------------------------------
(* Sequences and strings.                                                  *)

Range(s) == {s[i] : i \in 1..Len(s)}

SeqsUpTo(S, lo, hi) == UNION {[1..n -> S] : n \in lo..hi}

RECURSIVE Concat(_)
Concat(ss) == IF Len(ss) = 0 THEN <<>> ELSE Head(ss) \o Concat(Tail(ss))

Digits == <<"0", "1", "2", "3", "4", "5", "6", "7", "8", "9">>

IsDigit(c) == \E i \in 1..10 : Digits[i] = c

DigitVal(c) == (CHOOSE i \in 1..10 : Digits[i] = c) - 1

\* Python's str(n) of a non-negative integer.
RECURSIVE IntToStr(_)
IntToStr(n) ==
    IF n < 10 THEN <<Digits[n + 1]>>
    ELSE IntToStr(n \div 10) \o <<Digits[(n % 10) + 1]>>

\* The strings Python's int() accepts, among those the model draws.
IsNumericStr(s) == Len(s) > 0 /\ \A i \in 1..Len(s) : IsDigit(s[i])

\* Python's int(s) of such a string: leading zeros are dropped.
RECURSIVE StrToInt(_)
StrToInt(s) ==
    IF Len(s) = 0 THEN 0
    ELSE 10 * StrToInt(SubSeq(s, 1, Len(s) - 1)) + DigitVal(s[Len(s)])

-----------------------------------------------------------------------------
(* Cells.                                                                  *)

IntCell(n) == [k |-> "int", v |-> n]
FloatCell(n) == [k |-> "float", v |-> n]        \* the float n.0
NaN == [k |-> "nan", v |-> 0]
StrCell(s) == [k |-> "str", v |-> s]
PointCell(p) == [k |-> "point", v |-> p]        \* p = <<x, y>>
PolygonCell(b) == [k |-> "polygon", v |-> b]    \* b = <<lo, hi>>, a box

IsNumericCell(c) == c.k \in {"int", "float", "nan"}

\* Python's str(x), which astype(str) applies to every element.
PyStr(c) ==
    CASE c.k = "int" -> IntToStr(c.v)
      [] c.k = "float" -> IntToStr(c.v) \o <<".", "0">>
      [] c.k = "nan" -> <<"n", "a", "n">>
      [] c.k = "str" -> c.v
      [] c.k = "sqrt" -> <<"sqrt(">> \o IntToStr(c.v) \o <<")">>
      [] c.k = "point" ->
            <<"POINT (">> \o IntToStr(c.v[1]) \o <<" ">> \o IntToStr(c.v[2])
                \o <<")">>
      [] c.k = "polygon" ->
            <<"POLYGON (">> \o IntToStr(c.v[1][1]) \o <<" ">>
                \o IntToStr(c.v[1][2]) \o <<", ">> \o IntToStr(c.v[2][1])
                \o <<" ">> \o IntToStr(c.v[2][2]) \o <<")">>

\* The text DataFrame.to_csv writes for a cell: NaN is the empty field.
CsvText(c) == IF c.k = "nan" THEN <<>> ELSE PyStr(c)

-----------------------------------------------------------------------------
(* Frames.                                                                 *)

Frame(cols, rows) == [cols |-> cols, rows |-> rows]

NoFrame == Frame(<<>>, <<>>)

Column(t, c) == [i \in 1..Len(t.rows) |-> t.rows[i][c]]

HasCol(t, c) == c \in Range(t.cols)

\* df[[c1, c2, ...]].copy()
SelectCols(t, cols) ==
    Frame(cols, [i \in 1..Len(t.rows) |->
                    [c \in Range(cols) |-> t.rows[i][c]]])

\* df[c] = values (a new column is appended, an old one overwritten)
SetCol(t, c, values) ==
    Frame(IF HasCol(t, c) THEN t.cols ELSE Append(t.cols, c),
          [i \in 1..Len(t.rows) |->
              [d \in Range(t.cols) \cup {c} |->
                  IF d = c THEN values[i] ELSE t.rows[i][d]]])

\* df.rename(columns = {old: new})
RenameCol(t, old, new) ==
    Frame([j \in 1..Len(t.cols) |-> IF t.cols[j] = old THEN new ELSE t.cols[j]],
          [i \in 1..Len(t.rows) |->
              [d \in (Range(t.cols) \ {old}) \cup {new} |->
                  IF d = new THEN t.rows[i][old] ELSE t.rows[i][d]]])

\* A numeric column that holds a NaN is float64: pandas stores its integers
\* as floats.  A column with a string in it is object and keeps its cells.
UpcastCol(t, c) ==
    LET col == Column(t, c)
        numeric == \A i \in 1..Len(col) : IsNumericCell(col[i])
        floating == \E i \in 1..Len(col) : col[i].k \in {"nan", "float"}
    IN IF numeric /\ floating
       THEN SetCol(t, c, [i \in 1..Len(col) |->
                IF col[i].k = "int" THEN FloatCell(col[i].v) ELSE col[i]])
       ELSE t

RECURSIVE UpcastCols(_, _)
UpcastCols(t, cols) ==
    IF Len(cols) = 0 THEN t
    ELSE UpcastCols(UpcastCol(t, Head(cols)), Tail(cols))

\* df[c] = df[c].astype(str)
AsTypeStr(t, c) ==
    SetCol(t, c, [i \in 1..Len(t.rows) |-> StrCell(PyStr(t.rows[i][c]))])

\* DataFrame.to_csv(path, index=False): the header and one text per cell.
ToCsv(t) ==
    [header |-> t.cols,
     lines |-> [i \in 1..Len(t.rows) |->
                  [j \in 1..Len(t.cols) |-> CsvText(t.rows[i][t.cols[j]])]]]

-----------------------------------------------------------------------------
(* Geometry.  Coordinates are points of a small integer grid.  A tract     *)
(* polygon is an axis-parallel box <<lo, hi>>.  A distance is kept as its  *)
(* square: SqrtCell(d) is the float sqrt(d), and sqrt is increasing, so    *)
(* distances compare as their squares do.                                  *)

Lons == 0..4
Lats == 0..1
GridPoints == Lons \X Lats

TractBoxes == { <<(<<0, 0>>), (<<2, 2>>)>>,
                <<(<<2, 0>>), (<<4, 2>>)>>,
                <<(<<0, 0>>), (<<4, 2>>)>> }

SqrtCell(d) == [k |-> "sqrt", v |-> d]

\* shapely's representative_point(): a point inside the polygon, a function
\* of the polygon alone.  Of a box, its centre.
RepresentativePoint(b) ==
    <<(b[1][1] + b[2][1]) \div 2, (b[1][2] + b[2][2]) \div 2>>

\* to_crs(epsg=5070) of one coordinate: a conic equal-area projection, in
\* which the meridians converge towards the pole.  One-to-one on the grid.
ToCrs5070(p) == <<p[1] * (4 - p[2]), 4 * p[2]>>

\* GeoDataFrame.to_crs: reprojects the active geometry column only.
ToCrs(t) ==
    SetCol(t, "geometry",
           [i \in 1..Len(t.rows) |->
               PointCell(ToCrs5070(t.rows[i]["geometry"].v))])

Dist2(p, q) == (p[1] - q[1]) * (p[1] - q[1]) + (p[2] - q[2]) * (p[2] - q[2])

RECURSIVE SortedSeq(_)
SortedSeq(S) ==
    IF S = {} THEN <<>>
    ELSE LET m == CHOOSE x \in S : \A y \in S : x <= y
         IN <<m>> \o SortedSeq(S \ {m})

\* The rows of `right` nearest to point p: every row at the minimum distance
\* (sjoin_nearest keeps all equally near neighbours).
NearestRows(p, right) ==
    {j \in 1..Len(right.rows) :
        \A n \in 1..Len(right.rows) :
            Dist2(p, right.rows[j]["geometry"].v)
                <= Dist2(p, right.rows[n]["geometry"].v)}

\* gpd.sjoin_nearest(left, right, how="left", distance_col="distance") for a
\* non-empty `right`: for each left row, in order, one output row per nearest
\* right row.  The output keeps the left row's index label (here its position
\* in the RangeIndex the loader gave it), the right row's position as
\* index_right and the right frame's columns other than its geometry.
SjoinNearest(left, right) ==
    LET rcols == SelectSeq(right.cols, LAMBDA c : c # "geometry")
        joined(i) ==
            LET p == left.rows[i]["geometry"].v
                near == SortedSeq(NearestRows(p, right))
            IN [n \in 1..Len(near) |->
                  [label |-> i - 1,
                   row |-> [c \in {"geometry", "index_right", "distance"}
                                    \cup Range(rcols) |->
                              CASE c = "geometry" -> left.rows[i]["geometry"]
                                [] c = "index_right" -> IntCell(near[n] - 1)
                                [] c = "distance" ->
                                     SqrtCell(Dist2(p,
                                        right.rows[near[n]]["geometry"].v))
                                [] OTHER -> right.rows[near[n]][c]]]]
    IN [cols |-> <<"geometry", "index_right">> \o rcols \o <<"distance">>,
        labelled |-> Concat([i \in 1..Len(left.rows) |-> joined(i)])]

\* converter.py 89-92: the representative points become the geometry of the
\* frame the caller passed.
WithInsidePoint(tracts) ==
    LET t1 == SetCol(tracts, "inside_point",
                  [i \in 1..Len(tracts.rows) |->
                      PointCell(RepresentativePoint(
                                    tracts.rows[i]["geometry"].v))])
        t2 == SetCol(t1, "geometry_tract", Column(t1, "geometry"))
    IN SetCol(t2, "geometry", Column(t2, "inside_point"))

\* converter.py 74-110.  `result` is the returned frame, `tracts` the
\* caller's tract frame as the call leaves it.
link_school_to_tract(schools, tracts) ==
    LET original_data == SelectCols(schools, <<"universal-id", "geometry">>)
        tracts1 == WithInsidePoint(tracts)
        tracts2 == ToCrs(tracts1)
        school_geometry == ToCrs(SelectCols(schools, <<"geometry">>))
        joined == SjoinNearest(school_geometry, tracts2)
        \* school_tracts_id['universal-id'] = original_data['universal-id']
        \* aligns the two on the index label
        withId == [i \in 1..Len(joined.labelled) |->
                    [c \in Range(joined.cols) \cup {"universal-id"} |->
                        IF c = "universal-id"
                        THEN original_data.rows[joined.labelled[i].label + 1]
                                 ["universal-id"]
                        ELSE joined.labelled[i].row[c]]]
    IN [result |-> RenameCol(Frame(Append(joined.cols, "universal-id"), withId),
                             "GEOID", "Tract_FIPS"),
        tracts |-> tracts1]

-----------------------------------------------------------------------------
(* Exceptions and results.                                                 *)

Exc(type, arg) == [type |-> type, arg |-> arg]

NoExc == Exc("none", "")

Ok(value) == [exc |-> NoExc, value |-> value]

Fail(exc) == [exc |-> exc, value |-> NoFrame]

-----------------------------------------------------------------------------
(* pandas.merge(left, right, on=key, how='left').                          *)

HasStrCell(t, c) == \E i \in 1..Len(t.rows) : t.rows[i][c].k = "str"

\* pandas refuses to merge an object (string) key column with a numeric one
\* ("You are trying to merge on object and int64 columns"); it does not look
\* at the dtypes when one of the two frames is empty.
MergeKeyMismatch(left, right, key) ==
    /\ Len(left.rows) > 0
    /\ Len(right.rows) > 0
    /\ HasStrCell(left, key) # HasStrCell(right, key)

\* Two key values join when they are equal; 17 and 17.0 are equal, a string
\* never equals a number, and pandas joins a missing key with a missing key.
KeyEq(a, b) ==
    \/ a.k = "nan" /\ b.k = "nan"
    \/ a.k \in {"int", "float"} /\ b.k \in {"int", "float"} /\ a.v = b.v
    \/ a.k = "str" /\ b.k = "str" /\ a.v = b.v

Matches(lrow, right, key) ==
    SortedSeq({j \in 1..Len(right.rows) : KeyEq(lrow[key], right.rows[j][key])})

\* Mutant: how='inner', a left row that nothing matches is dropped.
UnmatchedRowsDropped(lrow, lcols, allcols) == <<>>

\* Mutant: the columns of an unmatched row are filled with 0, not left null.
UnmatchedRowsZeroFilled(lrow, lcols, allcols) ==
    << [c \in allcols |-> IF c \in lcols THEN lrow[c] ELSE IntCell(0)] >>

\* how='left': a left row that nothing matches is kept, once, with NaN in
\* the right frame's columns.
UnmatchedRows(lrow, lcols, allcols) ==
    << [c \in allcols |-> IF c \in lcols THEN lrow[c] ELSE NaN] >>

\* Mutant: every match of a left row is emitted twice.
MatchedRowsTwice(lrow, right, m, lcols, allcols) ==
    [n \in 1..(2 * Len(m)) |->
        [c \in allcols |-> IF c \in lcols THEN lrow[c]
                           ELSE right.rows[m[(n + 1) \div 2]][c]]]

\* A left row is joined with every right row that matches it, in the right
\* frame's order.
MatchedRows(lrow, right, m, lcols, allcols) ==
    [n \in 1..Len(m) |->
        [c \in allcols |-> IF c \in lcols THEN lrow[c] ELSE right.rows[m[n]][c]]]

\* The left join: every left row in order.  The columns are the left
\* frame's, then the right frame's without the key; a right column that
\* receives a NaN is upcast.
LeftMerge(left, right, key) ==
    LET rcols == SelectSeq(right.cols, LAMBDA c : c # key)
        lcols == Range(left.cols)
        allcols == lcols \cup Range(rcols)
        joined(i) ==
            LET m == Matches(left.rows[i], right, key)
            IN IF Len(m) = 0
               THEN UnmatchedRows(left.rows[i], lcols, allcols)
               ELSE MatchedRows(left.rows[i], right, m, lcols, allcols)
    IN UpcastCols(Frame(left.cols \o rcols,
                        Concat([i \in 1..Len(left.rows) |-> joined(i)])),
                  rcols)

pd_merge(left, right, key) ==
    IF MergeKeyMismatch(left, right, key)
    THEN Fail(Exc("ValueError", "merge on object and numeric columns"))
    ELSE Ok(LeftMerge(left, right, key))

-----------------------------------------------------------------------------
(* The Hierarchy Linker.                                                   *)

TractFipsColumn ==
    "State-County-Tract FIPS Code (lookup by address at http://www.ffiec.gov/Geocode/)"

IL == StrCell(<<"I", "L">>)
IN_ == StrCell(<<"I", "N">>)
WI == StrCell(<<"W", "I">>)
MI == StrCell(<<"M", "I">>)
OH == StrCell(<<"O", "H">>)

\* converter.py 155
StatesFilter == {IL, IN_, WI, MI}

\* Series.astype(int) raises on a NaN and on a string int() rejects.
CanCastInt(c) ==
    \/ c.k \in {"int", "float"}
    \/ c.k = "str" /\ IsNumericStr(c.v)

\* Mutant: a text is kept as it is read, leading zeros included.
CastIntKeepsText(c) == IF c.k = "str" THEN c ELSE IntCell(c.v)

\* int(x) of one cell: int("00123") is 123, int(123.0) is 123.
CastInt(c) == IF c.k = "str" THEN IntCell(StrToInt(c.v)) ELSE IntCell(c.v)

\* Mutant: pd.to_numeric(errors='coerce'), what cannot be cast becomes NaN.
AsTypeIntCoerce(t, c) ==
    Ok(SetCol(t, c, [i \in 1..Len(t.rows) |->
            IF CanCastInt(t.rows[i][c]) THEN CastInt(t.rows[i][c]) ELSE NaN]))

\* df[c] = df[c].astype(int)
AsTypeInt(t, c) ==
    IF \A i \in 1..Len(t.rows) : CanCastInt(t.rows[i][c])
    THEN Ok(SetCol(t, c, [i \in 1..Len(t.rows) |-> CastInt(t.rows[i][c])]))
    ELSE Fail(Exc("ValueError", "cannot convert to integer"))

\* Mutant: the state filter is computed and not applied.
FilterStatesNotApplied(t) == t

\* converter.py 154-156
FilterStates(t) ==
    Frame(t.cols,
          SelectSeq(t.rows, LAMBDA r : r["Select State"] \in StatesFilter))

\* converter.py 161-172
RenameHierarchy(t) ==
    LET new_order == <<"Select State", "Commuting Zone ID, 1990", "FIPS",
                       TractFipsColumn>>
    IN RenameCol(RenameCol(RenameCol(RenameCol(SelectCols(t, new_order),
           "Select State", "State"),
           "Commuting Zone ID, 1990", "CZ_ID"),
           "FIPS", "County_FIPS"),
           TractFipsColumn, "Tract_FIPS")

\* converter.py 140-174
link_tract_to_cz(fips, cz) ==
    LET merged == pd_merge(fips, cz, "FIPS")
    IN IF merged.exc # NoExc THEN merged
       ELSE LET cast == AsTypeInt(FilterStates(merged.value),
                                  "Commuting Zone ID, 1990")
            IN IF cast.exc # NoExc THEN cast
               ELSE Ok(RenameHierarchy(cast.value))

-----------------------------------------------------------------------------
(* The loaders.  An input file is [exists, frame]: whether the path names  *)
(* a file, and the table a reader parses from it.                          *)

InputFile(frame) == [exists |-> TRUE, frame |-> frame]

MissingFile == [exists |-> FALSE, frame |-> NoFrame]

\* The first of `cols` the frame lacks, or "" when it has them all.
FirstMissing(frame, cols) ==
    LET lacking == SelectSeq(cols, LAMBDA c : ~HasCol(frame, c))
    IN IF Len(lacking) = 0 THEN "" ELSE Head(lacking)

\* pd.read_csv / pd.read_excel infer one dtype per column.
ReadTable(file) == UpcastCols(file.frame, file.frame.cols)

\* converter.py 43-59
load_school_data(file) ==
    IF ~file.exists
    THEN Fail(Exc("FileNotFoundError", "schools_data_all_states.csv"))
    ELSE LET school_df == ReadTable(file)
         IN IF FirstMissing(school_df, <<"lon", "lat">>) # ""
            THEN Fail(Exc("AttributeError",
                          FirstMissing(school_df, <<"lon", "lat">>)))
            ELSE IF ~HasCol(school_df, "universal-id")
            THEN Fail(Exc("KeyError", "universal-id"))
            ELSE Ok(Frame(<<"geometry", "universal-id">>,
                    [i \in 1..Len(school_df.rows) |->
                        [c \in {"geometry", "universal-id"} |->
                            IF c = "geometry"
                            THEN PointCell(<<school_df.rows[i]["lon"].v,
                                             school_df.rows[i]["lat"].v>>)
                            ELSE school_df.rows[i][c]]]))

\* Mutant: a shapefile that is not there reads as a table without rows.
load_tract_data_lenient(file) ==
    IF ~file.exists
    THEN Ok(Frame(<<"GEOID", "geometry">>, <<>>))
    ELSE IF FirstMissing(file.frame, <<"GEOID", "geometry">>) # ""
    THEN Fail(Exc("KeyError", FirstMissing(file.frame, <<"GEOID", "geometry">>)))
    ELSE Ok(SelectCols(file.frame, <<"GEOID", "geometry">>))

\* converter.py 61-72.  geopandas.read_file reports a missing path with its
\* I/O engine's own error class, which is not FileNotFoundError.
load_tract_data(file) ==
    IF ~file.exists
    THEN Fail(Exc("DataSourceError", "cb_2018_17_tract_500k.shp"))
    ELSE IF FirstMissing(file.frame, <<"GEOID", "geometry">>) # ""
    THEN Fail(Exc("KeyError", FirstMissing(file.frame, <<"GEOID", "geometry">>)))
    ELSE Ok(SelectCols(file.frame, <<"GEOID", "geometry">>))

\* converter.py 112-125
load_demographic_data(file) ==
    IF ~file.exists
    THEN Fail(Exc("FileNotFoundError", "cz_2010_revised_urban_rural.xlsx"))
    ELSE LET tracts_df == RenameCol(ReadTable(file),
                                    "State-County FIPS Code", "FIPS")
             wanted == <<"FIPS", "Select State", TractFipsColumn>>
         IN IF FirstMissing(tracts_df, wanted) # ""
            THEN Fail(Exc("KeyError", FirstMissing(tracts_df, wanted)))
            ELSE Ok(SelectCols(tracts_df, wanted))

\* converter.py 127-138
load_cz_data(file) ==
    IF ~file.exists
    THEN Fail(Exc("FileNotFoundError", "cz_equivalency.xls"))
    ELSE LET cz_id_df == ReadTable(file)
             wanted == <<"Commuting Zone ID, 1990", "FIPS">>
         IN IF FirstMissing(cz_id_df, wanted) # ""
            THEN Fail(Exc("KeyError", FirstMissing(cz_id_df, wanted)))
            ELSE Ok(SelectCols(cz_id_df, wanted))

-----------------------------------------------------------------------------
(* The drivers: converter.main and main.main.  One action per stage; a     *)
(* stage that raises runs the driver's except clause in the same action.   *)

GeoStages == <<"load_school_data", "load_tract_data", "link_school_to_tract",
               "load_demographic_data", "load_cz_data", "link_tract_to_cz",
               "makedirs", "save_school_tracts", "save_tracts_cz", "merge",
               "save_merged">>

\* main.py 145-150
MainSteps == <<"collect_school_data", "collect_reviews", "collect_ratings",
               "convert_geographic_data", "merge_datasets",
               "run_regression_analysis">>

\* The step of main.py a stage belongs to.
StepOf(stage) ==
    IF stage \in Range(GeoStages) THEN "convert_geographic_data" ELSE stage

PosIn(seq, x) == CHOOSE i \in 1..Len(seq) : seq[i] = x

\* Mutant: main.py goes from step 1 to step 3.
NextStageSkipsReviews(d, stage) ==
    IF stage = "collect_school_data" THEN "collect_ratings"
    ELSE IF stage \in Range(GeoStages)
    THEN IF stage # "save_merged" THEN GeoStages[PosIn(GeoStages, stage) + 1]
         ELSE IF d = "converter" THEN "finish" ELSE "merge_datasets"
    ELSE IF stage = "collect_ratings" THEN "load_school_data"
         ELSE IF stage = "run_regression_analysis" THEN "finish"
         ELSE MainSteps[PosIn(MainSteps, stage) + 1]

\* The stage that follows `stage` when it succeeds.
NextStage(d, stage) ==
    IF stage \in Range(GeoStages)
    THEN IF stage # "save_merged" THEN GeoStages[PosIn(GeoStages, stage) + 1]
         ELSE IF d = "converter" THEN "finish" ELSE "merge_datasets"
    ELSE IF stage = "collect_ratings" THEN "load_school_data"
         ELSE IF stage = "run_regression_analysis" THEN "finish"
         ELSE MainSteps[PosIn(MainSteps, stage) + 1]

\* Mutant: the hierarchy table is saved under the link table's name.
OutputFileClash(stage) ==
    CASE stage = "save_school_tracts" -> "school_tract_linkage.csv"
      [] stage = "save_tracts_cz" -> "school_tract_linkage.csv"
      [] stage = "save_merged" -> "school_tract_cz_merged.csv"

\* The file a save stage writes (converter.py 205, 210, 236; main.py 101-104).
OutputFile(stage) ==
    CASE stage = "save_school_tracts" -> "school_tract_linkage.csv"
      [] stage = "save_tracts_cz" -> "tract_cz_linkage.csv"
      [] stage = "save_merged" -> "school_tract_cz_merged.csv"

OutputFiles == {"school_tract_linkage.csv", "tract_cz_linkage.csv",
                "school_tract_cz_merged.csv"}

NoCsv == [header |-> <<"<no file>">>, lines |-> <<>>]

StaleCsv == [header |-> <<"<an earlier run's table>">>, lines |-> <<>>]

PartialCsv == [header |-> <<"<partly written>">>, lines |-> <<>>]

Info(text) == [level |-> "INFO", text |-> text, exc |-> NoExc]

Printed(text) == [level |-> "print", text |-> text, exc |-> NoExc]

\* main.py 60, 73, 83, 107, 117, 138
ErrorText(step) ==
    CASE step = "collect_school_data" -> "Error during school data collection"
      [] step = "collect_reviews" -> "Error during review collection"
      [] step = "collect_ratings" -> "Error during ratings collection"
      [] step = "convert_geographic_data" ->
             "Error during geographic data conversion"
      [] step = "merge_datasets" -> "Error during dataset merging"
      [] step = "run_regression_analysis" -> "Error during regression analysis"

\* The except clauses.  converter.py 240-243 prints and lets main() return,
\* so the script ends with status 0; main.py logs the step and sys.exit(1).
HandlerMessage(d, stage, exc) ==
    IF d = "converter"
    THEN [level |-> "print",
          text |-> IF exc.type = "FileNotFoundError"
                   THEN "Error: Required file not found"
                   ELSE "Error occurred during processing",
          exc |-> exc]
    ELSE [level |-> "ERROR", text |-> ErrorText(StepOf(stage)), exc |-> exc]

HandlerExit(d) == IF d = "converter" THEN "exit 0" ELSE "exit 1"

\* The stage succeeded: the driver goes on.
Proceed(stage, msgs) ==
    /\ trace' = Append(trace, stage)
    /\ pc' = NextStage(driver, stage)
    /\ log' = log \o msgs
    /\ UNCHANGED <<exit_status, raised>>

\* The stage raised `exc` after logging `msgs`.
Abort(stage, exc, msgs) ==
    /\ trace' = Append(trace, stage)
    /\ raised' = Append(raised, <<stage, exc>>)
    /\ log' = log \o msgs \o <<HandlerMessage(driver, stage, exc)>>
    /\ exit_status' = HandlerExit(driver)
    /\ pc' = "done"

\* main.py 87
GeoStart ==
    IF driver = "mainpy" THEN <<Info("Step 4: Converting geographic data...")>>
    ELSE <<>>

OnlyConverter(msgs) == IF driver = "converter" THEN msgs ELSE <<>>

LoadSchoolData ==
    /\ pc = "load_school_data"
    /\ LET r == load_school_data(files.school)
       IN IF r.exc = NoExc
          THEN /\ school_identifier' = r.value
               /\ Proceed("load_school_data", GeoStart)
          ELSE /\ UNCHANGED school_identifier
               /\ Abort("load_school_data", r.exc, GeoStart)
    /\ UNCHANGED otherVars
    /\ UNCHANGED <<driver, files, tracts_identifier, school_tracts, tracts_fips,
                   cz_id, tracts_cz, merged_data, disk, written>>

LoadTractData ==
    /\ pc = "load_tract_data"
    /\ LET r == load_tract_data(files.tracts_geo)
       IN IF r.exc = NoExc
          THEN /\ tracts_identifier' = r.value
               /\ Proceed("load_tract_data", <<>>)
          ELSE /\ UNCHANGED tracts_identifier
               /\ Abort("load_tract_data", r.exc, <<>>)
    /\ UNCHANGED otherVars
    /\ UNCHANGED <<driver, files, school_identifier, school_tracts, tracts_fips,
                   cz_id, tracts_cz, merged_data, disk, written>>

\* converter.py 189-190, main.py 93
LinkSchoolToTract ==
    /\ pc = "link_school_to_tract"
    /\ LET r == link_school_to_tract(school_identifier, tracts_identifier)
       IN /\ school_tracts' = r.result
          /\ tracts_identifier' = r.tracts
    /\ Proceed("link_school_to_tract",
               OnlyConverter(<<Printed("Successfully linked schools to tracts")>>))
    /\ UNCHANGED otherVars
    /\ UNCHANGED <<driver, files, school_identifier, tracts_fips, cz_id,
                   tracts_cz, merged_data, disk, written>>

LoadDemographicData ==
    /\ pc = "load_demographic_data"
    /\ LET r == load_demographic_data(files.tracts_demo)
       IN IF r.exc = NoExc
          THEN /\ tracts_fips' = r.value
               /\ Proceed("load_demographic_data", <<>>)
          ELSE /\ UNCHANGED tracts_fips
               /\ Abort("load_demographic_data", r.exc, <<>>)
    /\ UNCHANGED otherVars
    /\ UNCHANGED <<driver, files, school_identifier, tracts_identifier,
                   school_tracts, cz_id, tracts_cz, merged_data, disk, written>>

LoadCzData ==
    /\ pc = "load_cz_data"
    /\ LET r == load_cz_data(files.cz_id)
       IN IF r.exc = NoExc
          THEN /\ cz_id' = r.value
               /\ Proceed("load_cz_data", <<>>)
          ELSE /\ UNCHANGED cz_id
               /\ Abort("load_cz_data", r.exc, <<>>)
    /\ UNCHANGED otherVars
    /\ UNCHANGED <<driver, files, school_identifier, tracts_identifier,
                   school_tracts, tracts_fips, tracts_cz, merged_data, disk,
                   written>>

\* converter.py 197-198, main.py 96
LinkTractToCz ==
    /\ pc = "link_tract_to_cz"
    /\ LET r == link_tract_to_cz(tracts_fips, cz_id)
       IN IF r.exc = NoExc
          THEN /\ tracts_cz' = r.value
               /\ Proceed("link_tract_to_cz",
                      OnlyConverter(<<Printed(
                          "Successfully linked tracts to commuting zones")>>))
          ELSE /\ UNCHANGED tracts_cz
               /\ Abort("link_tract_to_cz", r.exc, <<>>)
    /\ UNCHANGED otherVars
    /\ UNCHANGED <<driver, files, school_identifier, tracts_identifier,
                   school_tracts, tracts_fips, cz_id, merged_data, disk,
                   written>>

\* os.makedirs(output_dir, exist_ok=True): converter.py 202, main.py 100
MakeDirs ==
    /\ pc = "makedirs"
    /\ \E ok \in BOOLEAN :
          IF ok THEN Proceed("makedirs", <<>>)
          ELSE Abort("makedirs", Exc("OSError", "links"), <<>>)
    /\ UNCHANGED otherVars
    /\ UNCHANGED <<driver, files, school_identifier, tracts_identifier,
                   school_tracts, tracts_fips, cz_id, tracts_cz, merged_data,
                   disk, written>>

\* Mutant: a failed write clears the output directory.
FailedWriteClears(dsk, file, partial) == [f \in DOMAIN dsk |-> NoCsv]

\* A to_csv that fails leaves the file it was writing as it was, or cut
\* short; it touches no other file.
FailedWrite(dsk, file, partial) ==
    IF partial THEN [dsk EXCEPT ![file] = PartialCsv] ELSE dsk

\* table.to_csv(path, index=False)
SaveCsv(stage, table, msgs) ==
    /\ pc = stage
    /\ \/ /\ disk' = [disk EXCEPT ![OutputFile(stage)] = ToCsv(table)]
          /\ written' = [written EXCEPT ![OutputFile(stage)] = ToCsv(table)]
          /\ Proceed(stage, msgs)
       \/ /\ \E partial \in BOOLEAN :
                disk' = FailedWrite(disk, OutputFile(stage), partial)
          /\ UNCHANGED written
          /\ Abort(stage, Exc("OSError", OutputFile(stage)), <<>>)
    /\ UNCHANGED otherVars
    /\ UNCHANGED <<driver, files, school_identifier, tracts_identifier,
                   school_tracts, tracts_fips, cz_id, tracts_cz, merged_data>>

\* converter.py 205-207, main.py 101
SaveSchoolTracts ==
    SaveCsv("save_school_tracts", school_tracts,
            OnlyConverter(<<Printed("Saved school-tract linkage")>>))

\* converter.py 210-212, main.py 102
SaveTractsCz ==
    SaveCsv("save_tracts_cz", tracts_cz,
            OnlyConverter(<<Printed("Saved tract-commuting zone linkage")>>))

\* converter.py 236-238, main.py 104-105
SaveMerged ==
    SaveCsv("save_merged", merged_data,
            IF driver = "converter" THEN <<Printed("Saved merged data")>>
            ELSE <<Info("Geographic data conversion complete.")>>)

\* The identifier normalisation before the final join: converter.py 218-220
\* casts both Tract_FIPS columns to str; main.py 103 joins them as they are.
NormalizeTractFips(d, t) ==
    IF d = "converter" THEN AsTypeStr(t, "Tract_FIPS") ELSE t

\* converter.py 214-233, main.py 103
MergeLinks ==
    /\ pc = "merge"
    /\ LET left == NormalizeTractFips(driver, school_tracts)
           right == NormalizeTractFips(driver, tracts_cz)
           r == pd_merge(left, right, "Tract_FIPS")
       IN /\ school_tracts' = left
          /\ tracts_cz' = right
          /\ IF r.exc = NoExc
             THEN /\ merged_data' = r.value
                  /\ Proceed("merge", OnlyConverter(
                         <<Printed("School-tract linkage Tract_FIPS dtype"),
                           Printed("Tract-CZ linkage Tract_FIPS dtype"),
                           Printed("Original school_tracts rows"),
                           Printed("Original tracts_cz rows"),
                           Printed("Merged data rows")>>))
             ELSE /\ UNCHANGED merged_data
                  /\ Abort("merge", r.exc, OnlyConverter(
                         <<Printed("School-tract linkage Tract_FIPS dtype"),
                           Printed("Tract-CZ linkage Tract_FIPS dtype")>>))
    /\ UNCHANGED otherVars
    /\ UNCHANGED <<driver, files, school_identifier, tracts_identifier,
                   tracts_fips, cz_id, disk, written>>

\* A step of main.py that this model does not open: it completes or raises.
\* main.py 52-84, 110-139
OtherStep(step, start, complete) ==
    /\ pc = step
    /\ driver = "mainpy"
    /\ \E ok \in BOOLEAN :
          IF ok THEN Proceed(step, <<Info(start), Info(complete)>>)
          ELSE Abort(step, Exc("Exception", ""), <<Info(start)>>)
    /\ UNCHANGED otherVars
    /\ UNCHANGED <<driver, files, school_identifier, tracts_identifier,
                   school_tracts, tracts_fips, cz_id, tracts_cz, merged_data,
                   disk, written>>

CollectSchoolData ==
    OtherStep("collect_school_data",
              "Step 1: Collecting school data from GreatSchools...",
              "School data collection complete.")

CollectReviews ==
    OtherStep("collect_reviews",
              "Step 2: Collecting reviews and performing sentiment analysis...",
              "Review collection complete.")

CollectRatings ==
    OtherStep("collect_ratings",
              "Step 3: Collecting school ratings...",
              "Ratings collection complete.")

MergeDatasets ==
    OtherStep("merge_datasets",
              "Step 5: Merging all datasets...",
              "Dataset merging complete.")

RunRegressionAnalysis ==
    OtherStep("run_regression_analysis",
              "Step 6: Running regression analysis...",
              "Regression analysis complete.")

\* The driver returns: converter.py 238-239, main.py 152-156.
Finish ==
    /\ pc = "finish"
    /\ pc' = "done"
    /\ exit_status' = "exit 0"
    /\ log' = IF driver = "mainpy"
              THEN Append(log, Info(
                       "Ascending Project pipeline completed successfully"))
              ELSE log
    /\ UNCHANGED otherVars
    /\ UNCHANGED <<driver, files, school_identifier, tracts_identifier,
                   school_tracts, tracts_fips, cz_id, tracts_cz, merged_data,
                   disk, written, trace, raised>>

-----------------------------------------------------------------------------
(* Inputs.                                                                 *)

RECURSIVE Zfill(_, _)
Zfill(str, width) ==
    IF Len(str) >= width THEN str ELSE Zfill(<<"0">> \o str, width)

\* The identifier of the i-th school and the GEOID of the i-th tract: the
\* GEOID is a fixed-width, zero-padded string ("07", "14", "21", ...).
UniversalId(i) == StrCell(<<"u", Digits[i + 1]>>)

Geoid(i) == StrCell(Zfill(IntToStr(7 * i), 2))

\* A frame load_school_data returns, for the points ps.
SchoolFrame(ps) ==
    Frame(<<"geometry", "universal-id">>,
          [i \in 1..Len(ps) |->
              [c \in {"geometry", "universal-id"} |->
                  IF c = "geometry" THEN PointCell(ps[i]) ELSE UniversalId(i)]])

\* A frame load_tract_data returns, for the polygons bs.
TractFrame(bs) ==
    Frame(<<"GEOID", "geometry">>,
          [i \in 1..Len(bs) |->
              [GEOID |-> Geoid(i), geometry |-> PolygonCell(bs[i])]])

SchoolFrames == {SchoolFrame(ps) : ps \in SeqsUpTo(GridPoints, 0, MaxPoints)}

TractFrames == {TractFrame(bs) : bs \in SeqsUpTo(TractBoxes, 1, MaxTracts)}

\* The school CSV of the points ps.
SchoolCsv(ps) ==
    Frame(<<"universal-id", "lat", "lon">>,
          [i \in 1..Len(ps) |->
              [c \in {"universal-id", "lat", "lon"} |->
                  CASE c = "lon" -> IntCell(ps[i][1])
                    [] c = "lat" -> IntCell(ps[i][2])
                    [] OTHER -> UniversalId(i)]])

\* The demographic sheet with the rows rs, each <<county, state, tract>>.
DemoSheet(rs) ==
    Frame(<<"State-County FIPS Code", "Select State", TractFipsColumn>>,
          [i \in 1..Len(rs) |->
              [c \in {"State-County FIPS Code", "Select State",
                      TractFipsColumn} |->
                  CASE c = "State-County FIPS Code" -> rs[i][1]
                    [] c = "Select State" -> rs[i][2]
                    [] OTHER -> rs[i][3]]])

\* The commuting-zone sheet with the rows rs, each <<cz, county>>.
CzSheet(rs) ==
    Frame(<<"Commuting Zone ID, 1990", "FIPS">>,
          [i \in 1..Len(rs) |->
              [c \in {"Commuting Zone ID, 1990", "FIPS"} |->
                  IF c = "FIPS" THEN rs[i][2] ELSE rs[i][1]]])

Counties == {IntCell(17001), IntCell(18001)}

\* Commuting-zone ids as a sheet holds them: a number, a zero-padded text,
\* a text that is no number, an empty cell.
CzValues == {IntCell(123), StrCell(<<"0", "0", "1", "2", "3">>),
             StrCell(<<"n", "/", "a">>), NaN}

\* Tract ids as a sheet holds them: numbers, texts, an empty cell.
TractValues == {IntCell(7), IntCell(14), StrCell(<<"0", "7">>),
                StrCell(<<"1", "4">>), NaN}

\* One dtype per column apart from empty cells: a sheet column is numbers or
\* texts.
Uniform(rs, j) ==
    \A a, b \in 1..Len(rs) :
        rs[a][j].k = "str" /\ rs[b][j].k # "str" => rs[b][j].k = "nan"

Box1 == <<(<<0, 0>>), (<<2, 2>>)>>
Box2 == <<(<<2, 0>>), (<<4, 2>>)>>

\* The input files of a whole run of a driver.
RunFiles ==
    [school : {MissingFile,
               InputFile(SelectCols(SchoolCsv(<<(<<2, 1>>)>>),
                                    <<"universal-id", "lat">>)),
               InputFile(SchoolCsv(<<(<<2, 1>>)>>)),
               InputFile(SchoolCsv(<<(<<1, 1>>), (<<3, 0>>)>>))},
     tracts_geo : {MissingFile,
                   InputFile(TractFrame(<<Box1>>)),
                   InputFile(TractFrame(<<Box1, Box2>>))},
     tracts_demo : {MissingFile,
                    InputFile(DemoSheet(<< <<IntCell(17001), IL, IntCell(7)>> >>)),
                    InputFile(DemoSheet(<< <<IntCell(17001), IL, StrCell(<<"0", "7">>)>>,
                                           <<IntCell(18001), OH, StrCell(<<"1", "4">>)>> >>)),
                    InputFile(DemoSheet(<< <<IntCell(17001), IL, StrCell(<<"1", "4">>)>>,
                                           <<IntCell(17001), IL, StrCell(<<"1", "4">>)>> >>))},
     cz_id : {MissingFile,
              InputFile(CzSheet(<< <<IntCell(123), IntCell(17001)>> >>)),
              InputFile(CzSheet(<< <<IntCell(123), IntCell(18001)>> >>))}]

NoFiles == [school |-> MissingFile, tracts_geo |-> MissingFile,
            tracts_demo |-> MissingFile, cz_id |-> MissingFile]

-----------------------------------------------------------------------------
(* Specifications.                                                         *)

\* A run in which nothing has failed and nothing has been written yet.
Running ==
    /\ exit_status = "running"
    /\ written = [f \in OutputFiles |-> NoCsv]
    /\ raised = <<>>

EmptyDisk == [f \in OutputFiles |-> NoCsv]

\* A run of converter.main or of main.main (main.py 142-143).
Init ==
    /\ driver \in {"converter", "mainpy"}
    /\ pc = IF driver = "mainpy" THEN "collect_school_data"
            ELSE "load_school_data"
    /\ log = IF driver = "mainpy"
             THEN <<Info("Starting Ascending Project pipeline...")>> ELSE <<>>
    /\ files \in RunFiles
    /\ disk \in {EmptyDisk, [f \in OutputFiles |-> StaleCsv]}
    /\ Running
    /\ trace = <<>>
    /\ school_identifier = NoFrame
    /\ tracts_identifier = NoFrame
    /\ school_tracts = NoFrame
    /\ tracts_fips = NoFrame
    /\ cz_id = NoFrame
    /\ tracts_cz = NoFrame
    /\ merged_data = NoFrame
    /\ OthersIdle

Next ==
    \/ CollectSchoolData
    \/ CollectReviews
    \/ CollectRatings
    \/ LoadSchoolData
    \/ LoadTractData
    \/ LinkSchoolToTract
    \/ LoadDemographicData
    \/ LoadCzData
    \/ LinkTractToCz
    \/ MakeDirs
    \/ SaveSchoolTracts
    \/ SaveTractsCz
    \/ MergeLinks
    \/ SaveMerged
    \/ MergeDatasets
    \/ RunRegressionAnalysis
    \/ Finish

Spec == Init /\ [][Next]_vars

-----------------------------------------------------------------------------
(* The Nearest-Region Linker on every school and tract frame of the bounds: *)
(* converter.main has loaded the two frames and calls link_school_to_tract. *)

InitLink ==
    /\ driver = "converter"
    /\ pc = "link_school_to_tract"
    /\ trace = <<"load_school_data", "load_tract_data">>
    /\ files = NoFiles
    /\ log = <<>>
    /\ disk = EmptyDisk
    /\ Running
    /\ school_identifier \in SchoolFrames
    /\ tracts_identifier \in TractFrames
    /\ school_tracts = NoFrame
    /\ tracts_fips = NoFrame
    /\ cz_id = NoFrame
    /\ tracts_cz = NoFrame
    /\ merged_data = NoFrame
    /\ OthersIdle

NextLink == LinkSchoolToTract

SpecLink == InitLink /\ [][NextLink]_vars

-----------------------------------------------------------------------------
(* The Hierarchy Linker on every demographic and commuting-zone sheet of    *)
(* the bounds, as the loaders return them.                                  *)

\* The demographic sheets: a county and a state per row (NaN: an empty
\* cell), the i-th row's tract id the number 7 * i.
HierDemoSheets ==
    {DemoSheet([i \in 1..Len(rs) |-> <<rs[i][1], rs[i][2], IntCell(7 * i)>>]) :
        rs \in SeqsUpTo(Counties \X {IL, WI, OH, NaN}, 0, MaxDemoRows)}

CzSheets ==
    {CzSheet(rs) : rs \in {x \in SeqsUpTo(CzValues \X Counties, 0, MaxCzRows) :
                              Uniform(x, 1)}}

InitHier ==
    /\ driver = "converter"
    /\ pc = "link_tract_to_cz"
    /\ trace = <<"load_school_data", "load_tract_data", "link_school_to_tract",
                 "load_demographic_data", "load_cz_data">>
    /\ files = NoFiles
    /\ log = <<>>
    /\ disk = EmptyDisk
    /\ Running
    /\ school_identifier = NoFrame
    /\ tracts_identifier = NoFrame
    /\ school_tracts = NoFrame
    /\ tracts_fips \in {load_demographic_data(InputFile(x)).value :
                            x \in HierDemoSheets}
    /\ cz_id \in {load_cz_data(InputFile(x)).value : x \in CzSheets}
    /\ tracts_cz = NoFrame
    /\ merged_data = NoFrame
    /\ OthersIdle

NextHier == LinkTractToCz

SpecHier == InitHier /\ [][NextHier]_vars

-----------------------------------------------------------------------------
(* The final join, in both drivers: the run from the Hierarchy Linker to    *)
(* the end, on link tables link_school_to_tract returns and hierarchy       *)
(* tables link_tract_to_cz returns.                                         *)

JoinTracts == TractFrame(<<Box1, Box2>>)

\* A school nearest to the first tract, and one as near to the second.
JoinPoints == {<<1, 1>>, <<2, 1>>}

JoinSchoolFrames ==
    {SchoolFrame(ps) : ps \in SeqsUpTo(JoinPoints, 0, MaxLinkRows)}

\* The demographic sheets: county 17001, a state and a tract id per row.
JoinDemoSheets ==
    {DemoSheet([i \in 1..Len(rs) |-> <<IntCell(17001), rs[i][1], rs[i][2]>>]) :
        rs \in {x \in SeqsUpTo({IL, OH} \X TractValues, 0, MaxDemoRows) :
                   Uniform(x, 2)}}

\* County 17001 once, and twice.
JoinCzSheets ==
    {CzSheet(<< <<IntCell(123), IntCell(17001)>> >>),
     CzSheet(<< <<IntCell(123), IntCell(17001)>>,
                <<IntCell(123), IntCell(17001)>> >>)}

InitJoin ==
    /\ driver \in {"converter", "mainpy"}
    /\ pc = "link_tract_to_cz"
    /\ trace = <<"load_school_data", "load_tract_data", "link_school_to_tract",
                 "load_demographic_data", "load_cz_data">>
    /\ files = NoFiles
    /\ log = <<>>
    /\ disk = EmptyDisk
    /\ Running
    /\ \E s \in JoinSchoolFrames :
          /\ school_identifier = s
          /\ tracts_identifier = link_school_to_tract(s, JoinTracts).tracts
          /\ school_tracts = link_school_to_tract(s, JoinTracts).result
    /\ tracts_fips \in {load_demographic_data(InputFile(x)).value :
                            x \in JoinDemoSheets}
    /\ cz_id \in {load_cz_data(InputFile(x)).value : x \in JoinCzSheets}
    /\ tracts_cz = NoFrame
    /\ merged_data = NoFrame
    /\ OthersIdle

NextJoin ==
    \/ LinkTractToCz
    \/ MakeDirs
    \/ SaveSchoolTracts
    \/ SaveTractsCz
    \/ MergeLinks
    \/ SaveMerged
    \/ Finish

SpecJoin == InitJoin /\ [][NextJoin]_vars

-----------------------------------------------------------------------------
(* Properties of the Nearest-Region Linker, checked under SpecLink.        *)

Linked == pc # "link_school_to_tract"

\* The rows of the link table that carry the i-th school's identifier.
RowsOf(i) ==
    {j \in 1..Len(school_tracts.rows) :
        school_tracts.rows[j]["universal-id"]
            = school_identifier.rows[i]["universal-id"]}

\* A school with two nearest tracts: their representative points are
\* equally far from it in the projected plane.
Tied(i) ==
    \E a, b \in 1..Len(tracts_identifier.rows) :
        /\ a # b
        /\ \A n \in 1..Len(tracts_identifier.rows) :
              LET p == ToCrs5070(school_identifier.rows[i]["geometry"].v)
                  rep(x) == ToCrs5070(RepresentativePoint(
                                tracts_identifier.rows[x]["geometry_tract"].v))
              IN /\ Dist2(p, rep(a)) = Dist2(p, rep(b))
                 /\ Dist2(p, rep(a)) <= Dist2(p, rep(n))

\* C1 -- Identifier preservation: the link table has exactly one row per
\* input point, in the input order, and the row's universal-id is the
\* identifier of the input point at the same position, ties included.
C1_IdentifierPreservation ==
    Linked =>
        /\ Len(school_tracts.rows) = Len(school_identifier.rows)
        /\ \A i \in 1..Len(school_identifier.rows) :
              school_tracts.rows[i]["universal-id"]
                  = school_identifier.rows[i]["universal-id"]

\* C2 -- Single nearest region: every point is assigned exactly one region
\* id, and the recorded distance is the minimum projected distance from the
\* point to the representative points of the regions.
C2_SingleNearestRegion ==
    Linked =>
        \A i \in 1..Len(school_identifier.rows) :
            /\ Cardinality({school_tracts.rows[j]["Tract_FIPS"] : j \in RowsOf(i)})
                   = 1
            /\ \A j \in RowsOf(i) :
                  \A n \in 1..Len(tracts_identifier.rows) :
                      school_tracts.rows[j]["distance"].v
                          <= Dist2(ToCrs5070(school_identifier.rows[i]
                                                 ["geometry"].v),
                                   ToCrs5070(RepresentativePoint(
                                       tracts_identifier.rows[n]
                                           ["geometry_tract"].v)))

\* The tie that refutes C1 and C2 is reached: a school with two nearest
\* tracts has been linked.
TieLinked ==
    Linked /\ \E i \in 1..Len(school_identifier.rows) : Tied(i)

-----------------------------------------------------------------------------
(* Properties of the Hierarchy Linker, checked under SpecHier.             *)

HierarchyRan == pc # "link_tract_to_cz"

HierarchyReturned == HierarchyRan /\ raised = <<>>

\* C3 -- Filter correctness: every row the Hierarchy Linker returns has a
\* State of the allow-list IL, IN, WI, MI.
C3_FilterCorrectness ==
    HierarchyReturned =>
        \A i \in 1..Len(tracts_cz.rows) :
            tracts_cz.rows[i]["State"] \in
                {StrCell(<<"I", "L">>), StrCell(<<"I", "N">>),
                 StrCell(<<"W", "I">>), StrCell(<<"M", "I">>)}

\* The linker returned rows from a demographic table that also held a row of
\* another state and a row without a state.
C3_Witness ==
    /\ HierarchyReturned
    /\ Len(tracts_cz.rows) > 0
    /\ \E i \in 1..Len(tracts_fips.rows) : tracts_fips.rows[i]["Select State"] = OH
    /\ Len(tracts_cz.rows) < Len(tracts_fips.rows)

\* A commuting-zone id that is missing or is no number.
BadCzId(c) == c.k = "nan" \/ (c.k = "str" /\ ~IsNumericStr(c.v))

\* The demographic row i passes the state filter and, joined on the county
\* key, has a missing or non-numeric commuting-zone id.
BadFilteredRow(i) ==
    LET d == tracts_fips.rows[i]
        same == {j \in 1..Len(cz_id.rows) : cz_id.rows[j]["FIPS"].v = d["FIPS"].v}
    IN /\ d["Select State"] \in {IL, IN_, WI, MI}
       /\ \/ same = {}
          \/ \E j \in same : BadCzId(cz_id.rows[j]["Commuting Zone ID, 1990"])

\* C7 -- The Hierarchy Linker fails, and returns no table, whenever a row
\* that passes the state filter has a missing or non-numeric commuting-zone
\* id after the left join; when it returns, every CZ_ID is an integer.
C7_CzCastFailsOrInteger ==
    HierarchyRan =>
        /\ (\E i \in 1..Len(tracts_fips.rows) : BadFilteredRow(i)) =>
              /\ raised # <<>>
              /\ raised[1][1] = "link_tract_to_cz"
              /\ tracts_cz = NoFrame
        /\ raised = <<>> =>
              \A i \in 1..Len(tracts_cz.rows) : tracts_cz.rows[i]["CZ_ID"].k = "int"

\* The linker failed on a filtered row whose county has no commuting zone,
\* while another filtered row had a numeric one.
C7_Witness ==
    /\ HierarchyRan
    /\ raised # <<>>
    /\ \E i, j \in 1..Len(tracts_fips.rows) :
          /\ BadFilteredRow(i)
          /\ tracts_fips.rows[j]["Select State"] \in {IL, IN_, WI, MI}
          /\ ~BadFilteredRow(j)

-----------------------------------------------------------------------------
(* Properties of the final join, checked under SpecJoin.                   *)

MergeRan == "merge" \in Range(trace)

\* The final join has produced the merged table.
Merged == MergeRan /\ (raised = <<>> \/ raised[1][1] # "merge")

Restricted(row, cols) == [c \in Range(cols) |-> row[c]]

\* No two rows of the hierarchy table given to the join have the same
\* Tract_FIPS (two missing ones are the same).
HierarchyKeysDistinct ==
    \A a, b \in 1..Len(tracts_cz.rows) :
        a # b => tracts_cz.rows[a]["Tract_FIPS"] # tracts_cz.rows[b]["Tract_FIPS"]

\* C4 as stated -- Join completeness (row count): the final merged table has
\* exactly as many rows as the Point-to-Region Link table, for every link
\* table and every hierarchy table the Hierarchy Linker can produce.
C4_RowCountEqual ==
    Merged => Len(merged_data.rows) = Len(school_tracts.rows)

\* C4 as amended -- the final merged table has at least as many rows as the
\* link table and holds every link row; when no two rows of the hierarchy
\* table have the same Tract_FIPS it has exactly as many rows, the i-th
\* being the i-th link row.
C4_RowCountAmended ==
    Merged =>
        /\ Len(merged_data.rows) >= Len(school_tracts.rows)
        /\ \A i \in 1..Len(school_tracts.rows) :
              \E j \in 1..Len(merged_data.rows) :
                  Restricted(merged_data.rows[j], school_tracts.cols)
                      = school_tracts.rows[i]
        /\ HierarchyKeysDistinct =>
              /\ Len(merged_data.rows) = Len(school_tracts.rows)
              /\ \A i \in 1..Len(school_tracts.rows) :
                    Restricted(merged_data.rows[i], school_tracts.cols)
                        = school_tracts.rows[i]

\* A join of two link rows with a hierarchy table of two distinct tracts, one
\* row matched and one not.
C4_Witness ==
    /\ Merged
    /\ Len(school_tracts.rows) = 2
    /\ Len(tracts_cz.rows) = 2
    /\ HierarchyKeysDistinct
    /\ Len(merged_data.rows) = 2
    /\ \E i, j \in 1..2 : /\ merged_data.rows[i]["State"] = NaN
                          /\ merged_data.rows[j]["State"] # NaN

\* The merged row j has a region id that no row of the hierarchy table has.
Unmatched(j) ==
    \A h \in 1..Len(tracts_cz.rows) :
        tracts_cz.rows[h]["Tract_FIPS"] # merged_data.rows[j]["Tract_FIPS"]

\* The link table as link_school_to_tract returned it.
LinkTable == link_school_to_tract(school_identifier, JoinTracts).result

\* C5 -- Join completeness (unmatched rows): a row of the final merged table
\* whose region id has no match in the hierarchy table has null State, CZ_ID
\* and County_FIPS, and the region id and universal-id of a link row.
C5_UnmatchedRowsNull ==
    Merged =>
        LET link == LinkTable
        IN \A j \in 1..Len(merged_data.rows) :
               Unmatched(j) =>
                   /\ merged_data.rows[j]["State"] = NaN
                   /\ merged_data.rows[j]["CZ_ID"] = NaN
                   /\ merged_data.rows[j]["County_FIPS"] = NaN
                   /\ \E i \in 1..Len(link.rows) :
                         /\ merged_data.rows[j]["Tract_FIPS"]
                                = link.rows[i]["Tract_FIPS"]
                         /\ merged_data.rows[j]["universal-id"]
                                = link.rows[i]["universal-id"]

\* The join left a row unmatched although the hierarchy table had rows, and
\* matched another.
C5_Witness ==
    /\ Merged
    /\ Len(tracts_cz.rows) > 0
    /\ \E i, j \in 1..Len(merged_data.rows) : Unmatched(i) /\ ~Unmatched(j)

\* The tract number an identifier denotes, whatever its representation.
TractNumber(c) == IF c.k = "str" THEN StrToInt(c.v) ELSE c.v

SameTract(a, b) ==
    /\ a.k \in {"int", "float"} \/ (a.k = "str" /\ IsNumericStr(a.v))
    /\ b.k \in {"int", "float"} \/ (b.k = "str" /\ IsNumericStr(b.v))
    /\ TractNumber(a) = TractNumber(b)

\* The hierarchy table as link_tract_to_cz returned it.
HierarchyTable == link_tract_to_cz(tracts_fips, cz_id).value

\* C6 -- The driver normalises the tract identifier on both sides before the
\* final join, so that the join is made and a link row and a hierarchy row
\* that denote the same tract match, whether the identifier was a number or
\* a formatted string; in both drivers.
C6_SameTractMatches ==
    MergeRan =>
        /\ Merged
        /\ \A i \in 1..Len(LinkTable.rows) :
              \A h \in 1..Len(HierarchyTable.rows) :
                  SameTract(LinkTable.rows[i]["Tract_FIPS"],
                            HierarchyTable.rows[h]["Tract_FIPS"]) =>
                      \E j \in 1..Len(merged_data.rows) :
                          /\ merged_data.rows[j]["universal-id"]
                                 = LinkTable.rows[i]["universal-id"]
                          /\ merged_data.rows[j]["State"]
                                 = HierarchyTable.rows[h]["State"]
                          /\ merged_data.rows[j]["CZ_ID"].k # "nan"
                          /\ merged_data.rows[j]["CZ_ID"].v
                                 = HierarchyTable.rows[h]["CZ_ID"].v

\* C6 fails in main.py's driver: the join of a string column with a numeric
\* one raises.
C6_MainPyJoins == (MergeRan /\ driver = "mainpy") => Merged

\* C6 fails in converter.main: str() of a number is not zero-padded.
C6_ConverterMatches == driver = "converter" => C6_SameTractMatches

-----------------------------------------------------------------------------
(* Properties of the drivers, checked under Spec.                          *)

LastOf(seq) == seq[Len(seq)]

\* C8 -- Fail-fast abort: when a stage fails the run aborts: no later stage
\* is executed, the failed stage is not retried, and the run ends in a
\* failure outcome that names the failing stage, never in the success
\* outcome; in main.py's driver and in converter.main.
C8_FailFastAbort ==
    raised # <<>> =>
        /\ Len(raised) = 1
        /\ pc = "done"
        /\ LastOf(trace) = raised[1][1]
        /\ Cardinality({i \in 1..Len(trace) : trace[i] = raised[1][1]}) = 1
        /\ exit_status # "exit 0"
        /\ LastOf(log).text = ErrorText(StepOf(raised[1][1]))

\* What holds of C8 in both drivers: the failing stage is the last one
\* executed, it is executed once, and an error message is the last output.
C8_AbortsInBothDrivers ==
    raised # <<>> =>
        /\ Len(raised) = 1
        /\ pc = "done"
        /\ LastOf(trace) = raised[1][1]
        /\ Cardinality({i \in 1..Len(trace) : trace[i] = raised[1][1]}) = 1
        /\ LastOf(log).exc = raised[1][2]
        /\ driver = "mainpy" =>
              /\ exit_status = "exit 1"
              /\ LastOf(log).text = ErrorText(StepOf(raised[1][1]))

\* The three tables have been written: the linkage stages ran to their end.
LinkageCompleted ==
    /\ "save_merged" \in Range(trace)
    /\ raised = <<>> \/ raised[1][1] \notin Range(GeoStages)

SaveStages == {"save_school_tracts", "save_tracts_cz", "save_merged"}

\* C9 -- On every run in which all stages succeed the driver has written
\* exactly three tables, the point-to-region links, the region-to-hierarchy
\* links and the final merge, and the final merge is computed and written
\* only after both linkers have completed.
C9_ThreeTablesAfterLinkers ==
    /\ LinkageCompleted =>
          /\ Cardinality({i \in 1..Len(trace) : trace[i] \in SaveStages}) = 3
          /\ \A f \in OutputFiles : written[f] # NoCsv /\ disk[f] = written[f]
          /\ written["school_tract_linkage.csv"]
                 = ToCsv(link_school_to_tract(school_identifier,
                             load_tract_data(files.tracts_geo).value).result)
          /\ written["tract_cz_linkage.csv"]
                 = ToCsv(link_tract_to_cz(tracts_fips, cz_id).value)
          /\ written["school_tract_cz_merged.csv"] = ToCsv(merged_data)
    /\ \A i \in 1..Len(trace) :
          trace[i] \in {"merge", "save_merged"} =>
              \E j, n \in 1..(i - 1) : /\ trace[j] = "link_school_to_tract"
                                       /\ trace[n] = "link_tract_to_cz"

\* A run of main.py in which every stage succeeded and the merge has rows.
C9_Witness ==
    /\ pc = "done"
    /\ raised = <<>>
    /\ driver = "mainpy"
    /\ Len(merged_data.rows) > 0

\* C10 -- Partial outputs survive failure: every table this run has written
\* is on disk with the content written, also after a later stage has failed.
C10_PartialOutputsSurvive ==
    \A f \in OutputFiles : written[f] # NoCsv => disk[f] = written[f]

\* The write of the final merge failed after both link tables were written.
C10_Witness ==
    /\ pc = "done"
    /\ raised # <<>>
    /\ raised[1][1] = "save_merged"
    /\ disk["school_tract_cz_merged.csv"] = PartialCsv
    /\ written["school_tract_linkage.csv"] # NoCsv
    /\ written["tract_cz_linkage.csv"] # NoCsv

-----------------------------------------------------------------------------
(* Frame conditions of the linkage stages, checked under Spec.             *)

\* C11 -- Stage inputs are not mutated: a linker leaves the tables passed to
\* it as they were; after link_school_to_tract(P, R) the caller's P and R
\* have the columns and the geometry values they had before the call.
C11_StageInputsNotMutated ==
    [][/\ pc = "link_school_to_tract" =>
              UNCHANGED <<school_identifier, tracts_identifier>>
       /\ pc = "link_tract_to_cz" => UNCHANGED <<tracts_fips, cz_id>>]_vars

\* What holds of C11: the point table, and both inputs of the Hierarchy
\* Linker, are left as they were.
C11_OtherInputsNotMutated ==
    [][/\ pc = "link_school_to_tract" => UNCHANGED school_identifier
       /\ pc = "link_tract_to_cz" => UNCHANGED <<tracts_fips, cz_id>>]_vars

\* What fails of C11: the caller's region table keeps its columns and its
\* geometry values over the call of link_school_to_tract.
C11_RegionTableKept ==
    [][pc = "link_school_to_tract" =>
           /\ tracts_identifier'.cols = tracts_identifier.cols
           /\ Column(tracts_identifier', "geometry")
                  = Column(tracts_identifier, "geometry")]_vars

-----------------------------------------------------------------------------
(* More properties of the Hierarchy Linker, checked under SpecHier.        *)

\* The number a commuting-zone cell denotes: a text of digits denotes the
\* number without its leading zeros.
CzNumber(c) == IF c.k = "str" THEN StrToInt(c.v) ELSE c.v

\* C12 -- Hierarchy Linker result: for every county key k the demographic
\* table maps to an allow-listed state s and the commuting-zone table maps to
\* the id c, the output has a row with State s, CZ_ID the integer value of c
\* (00123 gives 123) and County_FIPS k, under the column names State, CZ_ID,
\* County_FIPS, Tract_FIPS.
C12_HierarchyResult ==
    HierarchyReturned =>
        /\ tracts_cz.cols = <<"State", "CZ_ID", "County_FIPS", "Tract_FIPS">>
        /\ \A i \in 1..Len(tracts_fips.rows) :
              \A j \in 1..Len(cz_id.rows) :
                  (/\ tracts_fips.rows[i]["Select State"] \in {IL, IN_, WI, MI}
                   /\ tracts_fips.rows[i]["FIPS"] = cz_id.rows[j]["FIPS"]) =>
                      \E r \in 1..Len(tracts_cz.rows) :
                          /\ tracts_cz.rows[r]["State"]
                                 = tracts_fips.rows[i]["Select State"]
                          /\ tracts_cz.rows[r]["CZ_ID"]
                                 = [k |-> "int",
                                    v |-> CzNumber(cz_id.rows[j]
                                              ["Commuting Zone ID, 1990"])]
                          /\ tracts_cz.rows[r]["County_FIPS"]
                                 = tracts_fips.rows[i]["FIPS"]

\* County 17001 is in IL, its commuting zone is the text 00123, and the
\* linker returned the row IL, 123, 17001.
C12_Witness ==
    /\ HierarchyReturned
    /\ \E j \in 1..Len(cz_id.rows) :
          /\ cz_id.rows[j]["Commuting Zone ID, 1990"]
                 = [k |-> "str", v |-> <<"0", "0", "1", "2", "3">>]
          /\ cz_id.rows[j]["FIPS"] = [k |-> "int", v |-> 17001]
    /\ \E r \in 1..Len(tracts_cz.rows) :
          /\ tracts_cz.rows[r]["State"] = IL
          /\ tracts_cz.rows[r]["CZ_ID"] = [k |-> "int", v |-> 123]
          /\ tracts_cz.rows[r]["County_FIPS"] = [k |-> "int", v |-> 17001]

\* The commuting-zone table has one row per county.
OneRowPerCounty ==
    \A a, b \in 1..Len(cz_id.rows) :
        cz_id.rows[a]["FIPS"] = cz_id.rows[b]["FIPS"] => a = b

\* The demographic rows whose state is in the allow-list, in the table's
\* order.
AllowListedRows ==
    SelectSeq(tracts_fips.rows,
              LAMBDA r : r["Select State"] \in {IL, IN_, WI, MI})

\* C20 -- Hierarchy Linker left join: when the commuting-zone table has one
\* row per county, the output of link_tract_to_cz has exactly one row per
\* demographic row whose state is in the allow-list, none dropped and none
\* duplicated, in the demographic table's order.
C20_OneRowPerAllowListedRow ==
    (HierarchyReturned /\ OneRowPerCounty) =>
        /\ Len(tracts_cz.rows) = Len(AllowListedRows)
        /\ \A i \in 1..Len(AllowListedRows) :
              /\ tracts_cz.rows[i]["State"] = AllowListedRows[i]["Select State"]
              /\ tracts_cz.rows[i]["County_FIPS"] = AllowListedRows[i]["FIPS"]
              /\ tracts_cz.rows[i]["Tract_FIPS"]
                     = AllowListedRows[i][TractFipsColumn]

\* The linker returned one row from two demographic rows, the first of a
\* state outside the allow-list, and a commuting-zone table of two counties.
C20_Witness ==
    /\ HierarchyReturned
    /\ OneRowPerCounty
    /\ Len(cz_id.rows) = 2
    /\ Len(tracts_fips.rows) = 2
    /\ tracts_fips.rows[1]["Select State"] = OH
    /\ Len(tracts_cz.rows) = 1
    /\ tracts_cz.rows[1]["Tract_FIPS"] = IntCell(14)

\* Two allow-listed demographic rows of one county both reached the output.
C20_SameCountyWitness ==
    /\ HierarchyReturned
    /\ OneRowPerCounty
    /\ Len(tracts_cz.rows) = 2
    /\ tracts_cz.rows[1]["County_FIPS"] = tracts_cz.rows[2]["County_FIPS"]

-----------------------------------------------------------------------------
(* The linkage pipeline at rest, for the specifications of the other        *)
(* components.                                                              *)

GeoIdle ==
    /\ driver = "converter"
    /\ pc = "done"
    /\ files = NoFiles
    /\ log = <<>>
    /\ disk = EmptyDisk
    /\ Running
    /\ trace = <<>>
    /\ school_identifier = NoFrame
    /\ tracts_identifier = NoFrame
    /\ school_tracts = NoFrame
    /\ tracts_fips = NoFrame
    /\ cz_id = NoFrame
    /\ tracts_cz = NoFrame
    /\ merged_data = NoFrame

-----------------------------------------------------------------------------
(* Identifier formatting in merge_data.py and regression.py.  The County   *)
(* FIPS column read from school_tract_cz_merged.csv is int64 when every     *)
(* school has a county, float64 when one has none; the column of the        *)
(* mobility table is text.                                                  *)

MaxCodeDigits == 5      \* digits of a code

FipsWidth == 5          \* .str.zfill(5)

CodeDigits == {"0", "1", "7"}

\* The codes of at most MaxCodeDigits digits written with CodeDigits.
CodeNumbers == {StrToInt(d) : d \in SeqsUpTo(CodeDigits, 1, MaxCodeDigits)}

\* str.strip(): leading and trailing blanks removed.
RECURSIVE StrStrip(_)
StrStrip(str) ==
    IF Len(str) > 0 /\ Head(str) = " " THEN StrStrip(Tail(str))
    ELSE IF Len(str) > 0 /\ str[Len(str)] = " "
         THEN StrStrip(SubSeq(str, 1, Len(str) - 1))
         ELSE str

\* The cells a code arrives in: an integer, a float, its decimal text, the
\* text with blanks around it, the text already padded; and the empty cell.
FipsCells ==
    UNION {{IntCell(n), FloatCell(n), StrCell(IntToStr(n)),
            StrCell(<<" ">> \o IntToStr(n) \o <<" ">>),
            StrCell(Zfill(IntToStr(n), FipsWidth))} : n \in CodeNumbers}
        \cup {NaN}

\* merge_data.py 88-93 (and 65-70): astype(str).str.strip(), then
\* .str.zfill(5).
ZeroFillId(cell) == Zfill(StrStrip(PyStr(cell)), FipsWidth)

\* merge_data.py 89, 93
PadCountyFips ==
    /\ fips_pc = "pad"
    /\ padded' = ZeroFillId(county_fips)
    /\ fips_pc' = "reparse"
    /\ UNCHANGED <<county_fips, reparsed, repadded>>
    /\ UNCHANGED exceptFips

\* The padded text is read as an integer: county_df['County_FIPS']
\* .astype(int) at merge_data.py 200, and pd.read_csv of the saved table at
\* regression.py 40.
ReparseCountyFips ==
    /\ fips_pc = "reparse"
    /\ IF IsNumericStr(padded)
       THEN /\ reparsed' = Ok(IntCell(StrToInt(padded)))
            /\ fips_pc' = "repad"
       ELSE /\ reparsed' = [exc |-> Exc("ValueError",
                                        "invalid literal for int()"),
                            value |-> NaN]
            /\ fips_pc' = "failed"
    /\ UNCHANGED <<county_fips, padded, repadded>>
    /\ UNCHANGED exceptFips

\* regression.py 115: astype(str).str.zfill(5)
RepadCountyFips ==
    /\ fips_pc = "repad"
    /\ repadded' = Zfill(PyStr(reparsed.value), FipsWidth)
    /\ fips_pc' = "done"
    /\ UNCHANGED <<county_fips, padded, reparsed>>
    /\ UNCHANGED exceptFips

InitFips ==
    /\ GeoIdle
    /\ SentimentIdle
    /\ RunIdle
    /\ UrlIdle
    /\ CollectIdle
    /\ ReviewsIdle
    /\ ParseIdle
    /\ fips_pc = "pad"
    /\ county_fips \in FipsCells
    /\ padded = <<>>
    /\ reparsed = Ok(NaN)
    /\ repadded = <<>>

NextFips == PadCountyFips \/ ReparseCountyFips \/ RepadCountyFips

SpecFips == InitFips /\ [][NextFips]_vars

\* The code a cell holds.
CodeOf(cell) ==
    IF cell.k = "str" THEN StrToInt(StrStrip(cell.v)) ELSE cell.v

\* The round trip of a code of at most 5 digits: a 4-digit code is padded
\* to 5 characters, the padded text parses as an integer, and padding that
\* integer gives the same text.
RoundTrips ==
    /\ (fips_pc # "pad" /\ CodeOf(county_fips) \in 1000..9999) =>
           Len(padded) = 5
    /\ fips_pc \in {"repad", "failed", "done"} =>
           /\ fips_pc # "failed"
           /\ reparsed.exc = NoExc
    /\ fips_pc = "done" => repadded = padded

\* C13 -- Round-trip identifier formatting: padding a 4-digit FIPS code to
\* width 5 gives a 5-character string, and parsing that string as an integer
\* and padding again gives the same string, for every code of at most 5
\* digits.
C13_RoundTripFormatting ==
    (county_fips # NaN /\ CodeOf(county_fips) < 100000) => RoundTrips

\* What holds of C13: the round trip of a code held as an integer or as a
\* text.
C13_RoundTripOfIntegersAndTexts ==
    (county_fips.k \in {"int", "str"} /\ CodeOf(county_fips) < 100000) =>
        RoundTrips

-----------------------------------------------------------------------------
(* The two spatial loaders on every input file of the bounds: the file is  *)
(* there or not, and has any subset of the columns the loader reads.        *)

\* The subsequences of a sequence of column names.
RECURSIVE SubSeqs(_)
SubSeqs(cols) ==
    IF Len(cols) = 0 THEN {<<>>}
    ELSE LET rest == SubSeqs(Tail(cols))
         IN rest \cup {<<Head(cols)>> \o r : r \in rest}

LoadSchoolFiles ==
    {MissingFile} \cup
    {InputFile(SelectCols(SchoolCsv(ps), cols)) :
        ps \in SeqsUpTo(JoinPoints, 0, MaxPoints),
        cols \in SubSeqs(<<"universal-id", "lat", "lon">>)}

LoadTractFiles ==
    {MissingFile} \cup
    {InputFile(SelectCols(t, cols)) :
        t \in TractFrames, cols \in {<<"GEOID", "geometry">>, <<"geometry">>}}

InitLoad ==
    /\ driver \in {"converter", "mainpy"}
    /\ pc = "load_school_data"
    /\ trace = <<>>
    /\ files \in [school : LoadSchoolFiles, tracts_geo : LoadTractFiles,
                  tracts_demo : {MissingFile}, cz_id : {MissingFile}]
    /\ log = <<>>
    /\ disk \in {EmptyDisk, [f \in OutputFiles |-> StaleCsv]}
    /\ Running
    /\ school_identifier = NoFrame
    /\ tracts_identifier = NoFrame
    /\ school_tracts = NoFrame
    /\ tracts_fips = NoFrame
    /\ cz_id = NoFrame
    /\ tracts_cz = NoFrame
    /\ merged_data = NoFrame
    /\ OthersIdle

NextLoad == LoadSchoolData \/ LoadTractData

SpecLoad == InitLoad /\ [][NextLoad]_vars

\* The school file is missing or lacks a column load_school_data reads.
SchoolInputBad ==
    \/ ~files.school.exists
    \/ \E c \in {"lon", "lat", "universal-id"} : ~HasCol(files.school.frame, c)

\* The tract file is missing or lacks a column load_tract_data reads.
TractInputBad ==
    \/ ~files.tracts_geo.exists
    \/ \E c \in {"GEOID", "geometry"} : ~HasCol(files.tracts_geo.frame, c)

\* The errors a loader raises on a missing file or column.
LoadErrors == {"FileNotFoundError", "DataSourceError", "KeyError",
               "AttributeError"}

\* The step is the failure of `stage` with a load error: nothing later runs.
FailsIn(stage) ==
    /\ Len(raised') = Len(raised) + 1
    /\ raised'[Len(raised')][1] = stage
    /\ raised'[Len(raised')][2].type \in LoadErrors
    /\ pc' = "done"

\* C14 -- Loader failure: load_school_data and load_tract_data fail with a
\* load error when the input file is missing or a column they read (lon,
\* lat, universal-id; GEOID) is absent, they return no table then, and a
\* loader call changes nothing but what it returns: no file is written, no
\* other table changes.
C14_LoaderFailure ==
    [][/\ pc = "load_school_data" =>
              /\ UNCHANGED <<files, disk, written, tracts_identifier,
                             school_tracts, tracts_fips, cz_id, tracts_cz,
                             merged_data>>
              /\ SchoolInputBad =>
                    FailsIn("load_school_data") /\ UNCHANGED school_identifier
              /\ ~SchoolInputBad => raised' = raised
       /\ pc = "load_tract_data" =>
              /\ UNCHANGED <<files, disk, written, school_identifier,
                             school_tracts, tracts_fips, cz_id, tracts_cz,
                             merged_data>>
              /\ TractInputBad =>
                    FailsIn("load_tract_data") /\ UNCHANGED tracts_identifier
              /\ ~TractInputBad => raised' = raised]_vars

\* The school table was loaded, and load_tract_data failed on a shapefile
\* without the GEOID column while an earlier run's files were on disk.
C14_Witness ==
    /\ Len(school_identifier.rows) > 0
    /\ raised # <<>>
    /\ raised[1][1] = "load_tract_data"
    /\ raised[1][2].type = "KeyError"
    /\ tracts_identifier = NoFrame
    /\ disk = [f \in OutputFiles |-> StaleCsv]

\* A loader failed on a file that is not there.
C14_MissingFileWitness ==
    /\ raised # <<>>
    /\ raised[1][2].type \in {"FileNotFoundError", "DataSourceError"}

-----------------------------------------------------------------------------
(* The order of the six steps of main.py, checked under Spec.              *)

\* The number of the step of main.py the i-th stage of the trace is part of.
StepNo(i) == PosIn(MainSteps, StepOf(trace[i]))

\* The stage is the last of its step.
EndsStep(stage) == stage \notin Range(GeoStages) \/ stage = "save_merged"

CompletionLogged ==
    \E i \in 1..Len(log) :
        log[i].text = "Ascending Project pipeline completed successfully"

C15_StoppedWitness ==
    /\ driver = "mainpy"
    /\ raised # <<>>
    /\ raised[1][1] = "merge_datasets"

-----------------------------------------------------------------------------
(* collect_schools.py: SchoolDataCollector.  The API is a function from a  *)
(* zip code to the pages it serves for it; a page is a response: it failed *)
(* (a RequestException), or it carries a 'schools' list, or none, and a    *)
(* 'next' link, or none.  A school is <<zip, page, position>>.             *)

MaxPages == 3           \* pages the API serves for a zip code
MaxPerPage == 2         \* schools of a page

STATES == <<"MI", "IN", "IL", "WI">>

LEVEL_CODES == [k |-> "str", v |-> "m|h"]

SCHOOLS_PER_PAGE == 50

PyNone == [k |-> "none", v |-> ""]

PyText(str) == [k |-> "str", v |-> str]

\* bool(x) of None or a string
Truthy(x) == x.k = "str" /\ x.v # ""

FailedResponse ==
    [ok |-> FALSE, has_schools |-> FALSE, schools |-> <<>>, next |-> FALSE]

\* The shape of a response: n schools (-1: no 'schools' key) and a next link.
PageShapes ==
    {[ok |-> FALSE, n |-> -1, next |-> FALSE]} \cup
    [ok : {TRUE}, n : -1..MaxPerPage, next : BOOLEAN]

\* The API serves a next page after every page that links to one.
WellFormed(shapes) ==
    \A i \in 1..Len(shapes) : (shapes[i].ok /\ shapes[i].next) => i < Len(shapes)

\* The pages of `zip` with the shapes given.
ApiPages(zip, shapes) ==
    [p \in 1..Len(shapes) |->
        IF ~shapes[p].ok THEN FailedResponse
        ELSE [ok |-> TRUE,
              has_schools |-> shapes[p].n >= 0,
              schools |-> [i \in 1..shapes[p].n |-> <<zip, p - 1, i>>],
              next |-> shapes[p].next]]

\* collect_schools.py 46-64
load_zip_codes(state) ==
    IF ~zip_codes.exists
    THEN Fail(Exc("FileNotFoundError", "data/geo/zip_codes.csv"))
    ELSE Ok(zip_codes.zips[state])

\* `state` and `zip_code` of the loops at collect_schools.py 158 and 130.
CurrentState == STATES[state_no]

CurrentZip == zip_codes.zips[CurrentState][zip_no]

\* collect_schools.py 156
LevelDesc(codes) == IF Truthy(codes) THEN codes ELSE PyNone

\* The level codes collect_state_data passes to fetch_schools_by_zip:
\* collect_schools.py 133.
FetchLevelCodes(codes) == LEVEL_CODES

\* collect_schools.py 75-83
QueryParams(zip, pg, codes) ==
    [zip |-> zip, limit |-> SCHOOLS_PER_PAGE, page |-> pg,
     level_codes |-> IF Truthy(codes) THEN codes ELSE PyNone]

\* Mutant: the schools of a page replace those of the pages before it.
ExtendedByReplacing(schools, data) ==
    IF data.has_schools /\ Len(data.schools) > 0 THEN data.schools
    ELSE schools

\* collect_schools.py 94-95
Extended(schools, data) ==
    IF data.has_schools /\ Len(data.schools) > 0 THEN schools \o data.schools
    ELSE schools

\* collect_all_states, one turn of the loop over STATES, to the call of
\* load_zip_codes in collect_state_data: collect_schools.py 158-160, 123-128
StartState ==
    /\ collect_pc = "state"
    /\ state_no <= Len(STATES)
    /\ IF load_zip_codes(CurrentState).exc = NoExc
       THEN /\ collect_pc' = "zip"
            /\ schools_df' = <<>>
            /\ zip_no' = 1
       ELSE /\ collect_pc' = "raised"
            /\ UNCHANGED <<schools_df, zip_no>>
    /\ UNCHANGED <<level_codes, zip_codes, api, state_no, page, all_schools,
                   state_data, requests, responses, state_files>>
    /\ UNCHANGED exceptCollect

\* collect_state_data calls fetch_schools_by_zip for the next zip code:
\* collect_schools.py 130-133, 70-71
CallFetch ==
    /\ collect_pc = "zip"
    /\ zip_no <= Len(zip_codes.zips[CurrentState])
    /\ page' = 0
    /\ all_schools' = <<>>
    /\ collect_pc' = "request"
    /\ UNCHANGED <<level_codes, zip_codes, api, state_no, zip_no, schools_df,
                   state_data, requests, responses, state_files>>
    /\ UNCHANGED exceptCollect

\* One turn of the loop of fetch_schools_by_zip: collect_schools.py 73-105
RequestPage ==
    /\ collect_pc = "request"
    /\ page < Len(api[CurrentZip])
    /\ LET data == api[CurrentZip][page + 1]
       IN /\ requests' = Append(requests,
                 QueryParams(CurrentZip, page, FetchLevelCodes(level_codes)))
          /\ IF ~data.ok
             THEN /\ collect_pc' = "return"
                  /\ UNCHANGED <<page, all_schools>>
             ELSE /\ all_schools' = Extended(all_schools, data)
                  /\ IF data.next
                     THEN page' = page + 1 /\ collect_pc' = "request"
                     ELSE page' = page /\ collect_pc' = "return"
    /\ UNCHANGED <<level_codes, zip_codes, api, state_no, zip_no, schools_df,
                   state_data, responses, state_files>>
    /\ UNCHANGED exceptCollect

\* fetch_schools_by_zip returns and collect_state_data adds the schools to
\* its table: collect_schools.py 107-111, 134-140
ReturnSchools ==
    /\ collect_pc = "return"
    /\ responses' = Append(responses,
           [zip |-> CurrentZip,
            value |-> IF Len(all_schools) = 0 THEN "None" ELSE "schools",
            schools |-> all_schools])
    /\ schools_df' = schools_df \o
           [i \in 1..Len(all_schools) |->
               [school |-> all_schools[i], zip |-> CurrentZip,
                state |-> CurrentState]]
    /\ zip_no' = zip_no + 1
    /\ collect_pc' = "zip"
    /\ UNCHANGED <<level_codes, zip_codes, api, state_no, page, all_schools,
                   state_data, requests, state_files>>
    /\ UNCHANGED exceptCollect

\* collect_state_data returns and collect_all_states saves the state's
\* table: collect_schools.py 142, 162-167
SaveState ==
    /\ collect_pc = "zip"
    /\ zip_no > Len(zip_codes.zips[CurrentState])
    /\ state_files' = Append(state_files,
           [name |-> CurrentState, level_desc |-> LevelDesc(level_codes),
            rows |-> schools_df])
    /\ state_data' = Append(state_data, schools_df)
    /\ state_no' = state_no + 1
    /\ collect_pc' = "state"
    /\ UNCHANGED <<level_codes, zip_codes, api, zip_no, page, all_schools,
                   schools_df, requests, responses>>
    /\ UNCHANGED exceptCollect

\* collect_schools.py 169-175
SaveCombined ==
    /\ collect_pc = "state"
    /\ state_no > Len(STATES)
    /\ state_files' = Append(state_files,
           [name |-> "all_states", level_desc |-> LevelDesc(level_codes),
            rows |-> Concat(state_data)])
    /\ collect_pc' = "done"
    /\ UNCHANGED <<level_codes, zip_codes, api, state_no, zip_no, page,
                   all_schools, schools_df, state_data, requests, responses>>
    /\ UNCHANGED exceptCollect

\* fetch_schools_by_zip on every API of the bounds, for one zip code.
FetchZip == "48001"

InitFetch ==
    /\ GeoIdle
    /\ SentimentIdle
    /\ RunIdle
    /\ UrlIdle
    /\ FipsIdle
    /\ ReviewsIdle
    /\ ParseIdle
    /\ collect_pc = "request"
    /\ level_codes = LEVEL_CODES
    /\ zip_codes = [exists |-> TRUE,
                    zips |-> [st \in Range(STATES) |->
                                 IF st = "MI" THEN <<FetchZip>> ELSE <<>>]]
    /\ api \in {[z \in {FetchZip} |-> ApiPages(z, shapes)] :
                   shapes \in {x \in SeqsUpTo(PageShapes, 1, MaxPages) :
                                  WellFormed(x)}}
    /\ state_no = 1
    /\ zip_no = 1
    /\ page = 0
    /\ all_schools = <<>>
    /\ schools_df = <<>>
    /\ state_data = <<>>
    /\ requests = <<>>
    /\ responses = <<>>
    /\ state_files = <<>>

NextFetch == RequestPage \/ ReturnSchools

SpecFetch == InitFetch /\ [][NextFetch]_vars

\* The schools of the first n pages, in page order.
RECURSIVE SchoolsOfPages(_, _)
SchoolsOfPages(pages, n) ==
    IF n = 0 THEN <<>>
    ELSE SchoolsOfPages(pages, n - 1) \o
             (IF pages[n].has_schools THEN pages[n].schools ELSE <<>>)

\* The first page without a next link.
LastPage(pages) ==
    CHOOSE n \in 1..Len(pages) :
        /\ ~pages[n].next
        /\ \A m \in 1..(n - 1) : pages[m].next

\* fetch_schools_by_zip has returned.
Fetched == Len(responses) = 1

\* C16 -- fetch_schools_by_zip handles pagination: it requests the pages 0,
\* 1, 2, ... of the zip code one after the other, and when no request fails
\* it returns the concatenation, in page order, of the schools of every page
\* up to and including the first page without a 'next' link; it returns None
\* exactly when that concatenation is empty.
C16_Pagination ==
    /\ \A i \in 1..Len(requests) :
          requests[i].zip = FetchZip /\ requests[i].page = i - 1
    /\ (Fetched /\ \A i \in 1..Len(requests) : api[FetchZip][i].ok) =>
          LET pages == api[FetchZip]
              all == SchoolsOfPages(pages, LastPage(pages))
          IN /\ Len(requests) = LastPage(pages)
             /\ responses[1].value = "None" <=> all = <<>>
             /\ responses[1].value # "None" => responses[1].schools = all

\* Three pages were requested, none failed, the second had no 'schools' key,
\* and schools of the first and the third page were returned.
C16_Witness ==
    /\ Fetched
    /\ Len(requests) = 3
    /\ \A i \in 1..3 : api[FetchZip][i].ok
    /\ ~api[FetchZip][2].has_schools
    /\ responses[1].value = "schools"
    /\ Len(api[FetchZip][1].schools) > 0
    /\ Len(api[FetchZip][3].schools) > 0

\* No request failed, no page had a school, and None was returned.
C16_NoneWitness ==
    /\ Fetched
    /\ Len(requests) > 1
    /\ \A i \in 1..Len(requests) : api[FetchZip][i].ok
    /\ responses[1].value = "None"

-----------------------------------------------------------------------------
(* collect_all_states on the APIs of the bounds and every level_codes      *)
(* argument: None (the default), the empty string, 'm|h' (what main.py      *)
(* passes), 'e'.                                                            *)

LevelCodesArguments == {PyNone, PyText(""), PyText("m|h"), PyText("e")}

ZipCodesFile ==
    [exists |-> TRUE,
     zips |-> [st \in Range(STATES) |->
                  CASE st = "MI" -> <<"48001">>
                    [] st = "IN" -> <<>>
                    [] st = "IL" -> <<"60601", "60602">>
                    [] st = "WI" -> <<"53001">>]]

NoZipCodesFile ==
    [exists |-> FALSE, zips |-> [st \in Range(STATES) |-> <<>>]]

\* Pages with one school or none, and failures.
CollectShapes ==
    {x \in SeqsUpTo({[ok |-> FALSE, n |-> -1, next |-> FALSE],
                     [ok |-> TRUE, n |-> 1, next |-> TRUE],
                     [ok |-> TRUE, n |-> 1, next |-> FALSE],
                     [ok |-> TRUE, n |-> 0, next |-> FALSE]}, 1, MaxPages) :
        WellFormed(x)}

InitCollect ==
    /\ GeoIdle
    /\ SentimentIdle
    /\ RunIdle
    /\ UrlIdle
    /\ FipsIdle
    /\ ReviewsIdle
    /\ ParseIdle
    /\ collect_pc = "state"
    /\ level_codes \in LevelCodesArguments
    /\ zip_codes \in {ZipCodesFile, NoZipCodesFile}
    /\ api \in {[z \in {"48001", "60601", "60602", "53001"} |->
                    ApiPages(z, shapes)] : shapes \in CollectShapes}
    /\ state_no = 1
    /\ zip_no = 0
    /\ page = 0
    /\ all_schools = <<>>
    /\ schools_df = <<>>
    /\ state_data = <<>>
    /\ requests = <<>>
    /\ responses = <<>>
    /\ state_files = <<>>

NextCollect ==
    \/ StartState
    \/ CallFetch
    \/ RequestPage
    \/ ReturnSchools
    \/ SaveState
    \/ SaveCombined

SpecCollect == InitCollect /\ [][NextCollect]_vars

\* C17 -- collect_all_states(level_codes) filters by its argument: the level
\* codes sent with every request are the level_codes passed to
\* collect_all_states, and when level_codes is None, the default, no
\* level_codes parameter is sent.
C17_LevelCodesArgument ==
    \A i \in 1..Len(requests) :
        requests[i].level_codes
            = (IF level_codes.k = "none" \/ level_codes.v = ""
               THEN [k |-> "none", v |-> ""]
               ELSE level_codes)

\* What holds of C17: with the argument main.py passes, Config.LEVEL_CODES,
\* the requests carry the argument.
C17_ConfiguredLevelCodes ==
    level_codes = [k |-> "str", v |-> "m|h"] =>
        \A i \in 1..Len(requests) : requests[i].level_codes = level_codes

\* What fails of C17: a call without level_codes sends no level_codes.
C17_DefaultSendsNone ==
    level_codes.k = "none" =>
        \A i \in 1..Len(requests) : requests[i].level_codes.k = "none"

-----------------------------------------------------------------------------
(* collect_reviews.py: SchoolReviewsScraper.process_schools_csv.  A row of *)
(* the input CSV is [id, short, page]: its universal-id, whether the line   *)
(* has fewer fields than the header (csv.DictReader then gives None for     *)
(* 'overview-url'), and what the reviews page of the school answers.        *)

MaxSchools == 2         \* data rows of the input CSV
MaxReviews == 2         \* review objects of a page

\* reviewBody texts: a blank one and one with words.
ReviewBodies == {<<" ">>, <<" ", "o", "k">>}

\* What a reviews page answers: the request fails, the page has no JSON-LD
\* script tag, its JSON does not parse, or it lists review objects.
ReviewPages ==
    {[status |-> st, bodies |-> <<>>] :
        st \in {"request_error", "no_script", "bad_json"}} \cup
    {[status |-> "ok", bodies |-> b] :
        b \in SeqsUpTo(ReviewBodies, 0, MaxReviews)}

\* Mutant: blank review bodies are kept.
scrape_reviews_keeps_blank(webpage) ==
    IF webpage.status # "ok" THEN [k |-> "none", v |-> <<>>]
    ELSE [k |-> "list", v |-> webpage.bodies]

\* collect_reviews.py 41-84: None, or the stripped non-empty review texts.
scrape_reviews(webpage) ==
    IF webpage.status # "ok" THEN [k |-> "none", v |-> <<>>]
    ELSE [k |-> "list",
          v |-> SelectSeq([i \in 1..Len(webpage.bodies) |->
                              StrStrip(webpage.bodies[i])],
                          LAMBDA t : Len(t) > 0)]

\* Mutant: every row handled counts as processed successfully.
CountedAlways(reviews) == 1

\* collect_reviews.py 153, 172: `if not reviews` ... else
\* successful_count += 1
Counted(reviews) == IF Len(reviews.v) = 0 THEN 0 ELSE 1

\* collect_reviews.py 154-160, 165-171: the row written for a school.
OutputRow(row, reviews) ==
    [universal_id |-> row.id,
     reviews |-> reviews.v,
     sentiment_scores |-> IF Len(reviews.v) = 0 THEN "None" ELSE "scores"]

\* collect_reviews.py 121-134, 187-192
OpenFiles ==
    /\ reviews_pc = "open"
    /\ IF ~input_csv.exists
       THEN /\ reviews_returned' = [k |-> "FileNotFoundError", v |-> 0]
            /\ reviews_log' = Append(reviews_log, <<"File not found", 0>>)
            /\ reviews_pc' = "raised"
            /\ UNCHANGED <<output_csv, idx>>
       ELSE IF ~input_csv.header
       THEN /\ reviews_returned' = [k |-> "StopIteration", v |-> 0]
            /\ reviews_log' = Append(reviews_log, <<"Unexpected error", 0>>)
            /\ reviews_pc' = "raised"
            /\ output_csv' = <<>>
            /\ UNCHANGED idx
       ELSE /\ output_csv' = <<>>
            /\ idx' = 1
            /\ reviews_pc' = "row"
            /\ UNCHANGED <<reviews_returned, reviews_log>>
    /\ successful_count' = 0
    /\ UNCHANGED input_csv
    /\ UNCHANGED exceptReviews

\* One turn of the loop over the data rows: collect_reviews.py 136-182
ProcessRow ==
    /\ reviews_pc = "row"
    /\ idx <= Len(input_csv.rows)
    /\ LET row == input_csv.rows[idx]
           reviews == scrape_reviews(row.webpage)
       IN \E written_ok \in BOOLEAN :
             IF row.short \/ ~written_ok
             THEN /\ reviews_log' =
                         Append(reviews_log, <<"Error processing", row.id>>)
                  /\ UNCHANGED <<output_csv, successful_count>>
             ELSE /\ output_csv' = Append(output_csv, OutputRow(row, reviews))
                  /\ successful_count' = successful_count + Counted(reviews)
                  /\ UNCHANGED reviews_log
    /\ idx' = idx + 1
    /\ UNCHANGED <<reviews_pc, input_csv, reviews_returned>>
    /\ UNCHANGED exceptReviews

\* collect_reviews.py 184-185
ReturnCount ==
    /\ reviews_pc = "row"
    /\ idx > Len(input_csv.rows)
    /\ reviews_returned' = [k |-> "int", v |-> successful_count]
    /\ reviews_log' =
           Append(reviews_log, <<"Scraping completed", successful_count>>)
    /\ reviews_pc' = "done"
    /\ UNCHANGED <<input_csv, output_csv, idx, successful_count>>
    /\ UNCHANGED exceptReviews

\* The input CSVs: no file, a file without a line, a header and data rows.
InputCsvs ==
    {[exists |-> FALSE, header |-> FALSE, rows |-> <<>>],
     [exists |-> TRUE, header |-> FALSE, rows |-> <<>>]} \cup
    {[exists |-> TRUE, header |-> TRUE,
      rows |-> [i \in 1..Len(rs) |->
                   [id |-> i, short |-> rs[i][1], webpage |-> rs[i][2]]]] :
        rs \in SeqsUpTo(BOOLEAN \X ReviewPages, 0, MaxSchools)}

InitReviews ==
    /\ GeoIdle
    /\ SentimentIdle
    /\ RunIdle
    /\ UrlIdle
    /\ FipsIdle
    /\ CollectIdle
    /\ ParseIdle
    /\ reviews_pc = "open"
    /\ input_csv \in InputCsvs
    /\ output_csv \in {<<>>, <<[universal_id |-> 0, reviews |-> <<>>,
                              sentiment_scores |-> "None"]>>}
    /\ idx = 0
    /\ successful_count = 0
    /\ reviews_returned = [k |-> "none", v |-> 0]
    /\ reviews_log = <<>>

NextReviews == OpenFiles \/ ProcessRow \/ ReturnCount

SpecReviews == InitReviews /\ [][NextReviews]_vars

\* The output rows written with reviews and sentiment scores.
RowsWithReviews ==
    {j \in 1..Len(output_csv) :
        /\ Len(output_csv[j].reviews) > 0
        /\ output_csv[j].sentiment_scores # "None"}

\* C18 -- process_schools_csv returns the number of schools processed
\* successfully: the count returned is the number of output rows written
\* with a non-empty review list and sentiment scores, and it is at most the
\* number of data rows of the input CSV.
C18_ReturnsSuccessfulCount ==
    reviews_pc = "done" =>
        /\ reviews_returned.k = "int"
        /\ reviews_returned.v = Cardinality(RowsWithReviews)
        /\ reviews_returned.v <= Len(input_csv.rows)

\* Two schools were handled, one had reviews and one had only a blank
\* review, and 1 was returned.
C18_Witness ==
    /\ reviews_pc = "done"
    /\ Len(input_csv.rows) = 2
    /\ Len(output_csv) = 2
    /\ reviews_returned.v = 1
    /\ \E j \in 1..2 : /\ input_csv.rows[j].webpage.status = "ok"
                       /\ Len(input_csv.rows[j].webpage.bodies) > 0
                       /\ Len(output_csv[j].reviews) = 0

-----------------------------------------------------------------------------
(* quantity_scraper.py: SchoolScraper.parse_scraped_data.  The scraped     *)
(* dictionary is the sequence of its items <<school_id, school_data>>, in   *)
(* insertion order, with distinct keys.  A school_data is a dictionary of   *)
(* sections; a row is a dictionary from column names to cells.              *)

MaxSchoolKeys == 2      \* keys of the scraped dictionary

SchoolIds == 1..MaxSchoolKeys

\* Names the page gives to improvement categories and college-prep metrics.
Categories == {"id", "math"}
Metrics == {"sat"}

\* All dictionaries with keys in K and values in V, the empty one included.
Dicts(K, V) == UNION {[D -> V] : D \in SUBSET K}

ImprovementDicts == Dicts(Categories, {IntCell(2)})

PrepDicts ==
    Dicts(Metrics, {[school_value |-> IntCell(3), state_value |-> IntCell(4)]})

SchoolDatas ==
    {<<>>} \cup
    {[school_improvement |-> i] : i \in ImprovementDicts} \cup
    {[college_prep |-> c] : c \in PrepDicts} \cup
    {[school_improvement |-> i, college_prep |-> c] :
        i \in ImprovementDicts, c \in PrepDicts}

ScrapedDicts ==
    {d \in SeqsUpTo(SchoolIds \X SchoolDatas, 0, MaxSchoolKeys) :
        \A i, j \in 1..Len(d) : d[i][1] = d[j][1] => i = j}

\* Mutant: the improvement columns are named school_<category>.
ImprovementColumnShort(category) == "school_" \o category

\* quantity_scraper.py 414
ImprovementColumn(category) == "school_improvement_" \o category

\* quantity_scraper.py 420-421
PrepColumn(metric, field) == "college_prep_" \o metric \o "_" \o field

\* `key in d and d[key]`
HasSection(school_data, key) ==
    key \in DOMAIN school_data /\ DOMAIN school_data[key] # {}

\* quantity_scraper.py 412-415
ImprovementCells(school_data) ==
    IF ~HasSection(school_data, "school_improvement") THEN <<>>
    ELSE LET d == school_data["school_improvement"]
         IN [c \in {ImprovementColumn(cat) : cat \in DOMAIN d} |->
                d[CHOOSE cat \in DOMAIN d : ImprovementColumn(cat) = c]]

\* quantity_scraper.py 418-421
PrepCells(school_data) ==
    IF ~HasSection(school_data, "college_prep") THEN <<>>
    ELSE LET d == school_data["college_prep"]
             F == {"school_value", "state_value"}
         IN [c \in {PrepColumn(m, f) : m \in DOMAIN d, f \in F} |->
                LET mf == CHOOSE mf \in (DOMAIN d) \X F :
                              PrepColumn(mf[1], mf[2]) = c
                IN d[mf[1]][mf[2]]]

\* quantity_scraper.py 406-472: the row of one school; a later assignment
\* to a column replaces an earlier one.
SchoolRow(school_id, school_data) ==
    IF DOMAIN school_data = {} THEN ("school_id" :> IntCell(school_id))
    ELSE PrepCells(school_data) @@ ImprovementCells(school_data)
         @@ ("school_id" :> IntCell(school_id))

\* pd.DataFrame(list of dicts): the columns are the keys of all rows, and a
\* row without a column has NaN there.
DataFrame(dict_rows) ==
    LET cols == UNION {DOMAIN dict_rows[i] : i \in 1..Len(dict_rows)}
    IN [cols |-> cols,
        rows |-> [i \in 1..Len(dict_rows) |->
                     [c \in cols |-> IF c \in DOMAIN dict_rows[i]
                                     THEN dict_rows[i][c] ELSE NaN]]]

\* One turn of the loop over the items: quantity_scraper.py 404-474
ParseSchool ==
    /\ parse_pc = "loop"
    /\ Len(parse_rows) < Len(json_data)
    /\ LET item == json_data[Len(parse_rows) + 1]
       IN parse_rows' = Append(parse_rows, SchoolRow(item[1], item[2]))
    /\ UNCHANGED <<parse_pc, json_data, parsed_df>>
    /\ UNCHANGED exceptParse

\* quantity_scraper.py 476
ReturnFrame ==
    /\ parse_pc = "loop"
    /\ Len(parse_rows) = Len(json_data)
    /\ parsed_df' = DataFrame(parse_rows)
    /\ parse_pc' = "done"
    /\ UNCHANGED <<json_data, parse_rows>>
    /\ UNCHANGED exceptParse

InitParse ==
    /\ GeoIdle
    /\ SentimentIdle
    /\ RunIdle
    /\ UrlIdle
    /\ FipsIdle
    /\ CollectIdle
    /\ ReviewsIdle
    /\ parse_pc = "loop"
    /\ json_data \in ScrapedDicts
    /\ parse_rows = <<>>
    /\ parsed_df = [cols |-> {}, rows |-> <<>>]

NextParse == ParseSchool \/ ReturnFrame

SpecParse == InitParse /\ [][NextParse]_vars

\* The cells of row i of the returned table that are not NaN.
Carried(i) == {c \in parsed_df.cols : parsed_df.rows[i][c] # NaN}

\* C19 -- parse_scraped_data returns a table with exactly one row per
\* school: as many rows as the scraped dictionary has keys, each row's
\* school_id a distinct key, and a school whose scraped data is empty still
\* has a row, which carries only its school_id.
C19_OneRowPerSchool ==
    parse_pc = "done" =>
        /\ Len(parsed_df.rows) = Len(json_data)
        /\ \A i \in 1..Len(json_data) :
              /\ parsed_df.rows[i]["school_id"] = IntCell(json_data[i][1])
              /\ DOMAIN json_data[i][2] = {} => Carried(i) = {"school_id"}
        /\ \A i, j \in 1..Len(parsed_df.rows) :
              parsed_df.rows[i]["school_id"] = parsed_df.rows[j]["school_id"]
                  => i = j

\* A table was returned for two schools: one without data and one with an
\* improvement category named "id" whose score is the other school's key.
C19_Witness ==
    /\ parse_pc = "done"
    /\ Len(json_data) = 2
    /\ Len(parsed_df.rows) = 2
    /\ \E i, j \in 1..2 :
          /\ DOMAIN json_data[i][2] = {}
          /\ HasSection(json_data[j][2], "school_improvement")
          /\ "id" \in DOMAIN json_data[j][2]["school_improvement"]
          /\ json_data[j][2]["school_improvement"]["id"]
                 = IntCell(json_data[i][1])
          /\ "school_improvement_id" \in parsed_df.cols

\* The review bodies of a page that hold more than blanks.
TextBodies(webpage) ==
    SelectSeq(webpage.bodies, LAMBDA b : \E n \in 1..Len(b) : b[n] # " ")

\* The scrape of a page gives no review: it failed, or every body is blank.
NoReviews(webpage) == webpage.status # "ok" \/ Len(TextBodies(webpage)) = 0

\* process_schools_csv logged an error for the school with this id.
ErrorLogged(id) ==
    \E n \in 1..Len(reviews_log) : reviews_log[n] = <<"Error processing", id>>

\* The output rows of the school with this id.
RowsOfSchool(id) ==
    {j \in 1..Len(output_csv) : output_csv[j].universal_id = id}

\* C21 -- scrape_reviews returns the list of non-empty review texts, or None
\* if scraping failed; for a school whose scrape returned None or an empty
\* list, process_schools_csv still writes exactly one output row for that
\* school, with an empty review list and null sentiment scores, and does not
\* count the school as successful.  Checked on every school handled without
\* an error being logged for it.
C21_NoReviewsRow ==
    reviews_pc = "done" =>
        /\ \A i \in 1..Len(input_csv.rows) :
              LET row == input_csv.rows[i]
              IN (~row.short /\ ~ErrorLogged(row.id)) =>
                    /\ Cardinality(RowsOfSchool(row.id)) = 1
                    /\ \A j \in RowsOfSchool(row.id) :
                          IF NoReviews(row.webpage)
                          THEN /\ output_csv[j].reviews = <<>>
                               /\ output_csv[j].sentiment_scores = "None"
                          ELSE /\ Len(output_csv[j].reviews)
                                      = Len(TextBodies(row.webpage))
                               /\ \A n \in 1..Len(output_csv[j].reviews) :
                                     LET t == output_csv[j].reviews[n]
                                     IN /\ Len(t) > 0
                                        /\ t[1] # " "
                                        /\ t[Len(t)] # " "
        /\ successful_count =
               Cardinality({i \in 1..Len(input_csv.rows) :
                               /\ RowsOfSchool(input_csv.rows[i].id) # {}
                               /\ ~NoReviews(input_csv.rows[i].webpage)})

\* Two schools were handled without an error: the request of one failed and
\* the page of the other held only a blank review; each has its row and
\* none was counted.
C21_Witness ==
    /\ reviews_pc = "done"
    /\ Len(input_csv.rows) = 2
    /\ input_csv.rows[1].webpage.status = "request_error"
    /\ input_csv.rows[2].webpage = [status |-> "ok", bodies |-> << <<" ">> >>]
    /\ ~input_csv.rows[1].short
    /\ ~input_csv.rows[2].short
    /\ Len(output_csv) = 2
    /\ reviews_returned.v = 0

-----------------------------------------------------------------------------
(* The URL the review scrapers request for an overview-url cell: the       *)
(* method process_schools_csv of src/src/collect_reviews.py and the main   *)
(* of the stand-alone src/collect_reviews.py.  A URL is a sequence of      *)
(* characters.                                                              *)

MaxUrlParts == 4        \* pieces an overview-url cell is made of

UrlParts == {<<"a">>, <<"/">>, <<"r", "e", "v", "i", "e", "w", "s">>, <<" ">>}

OverviewUrls ==
    {Concat(ps) : ps \in SeqsUpTo(UrlParts, 0, MaxUrlParts)}

ReviewsSuffix == <<"/", "r", "e", "v", "i", "e", "w", "s", "/">>

\* str.endswith(suffix)
EndsWith(str, suffix) ==
    /\ Len(str) >= Len(suffix)
    /\ SubSeq(str, Len(str) - Len(suffix) + 1, Len(str)) = suffix

\* str.rstrip('/')
RECURSIVE RStripSlash(_)
RStripSlash(str) ==
    IF Len(str) > 0 /\ str[Len(str)] = "/"
    THEN RStripSlash(SubSeq(str, 1, Len(str) - 1))
    ELSE str

\* Mutant: the suffix is appended whatever the URL ends with.
ReviewsUrlAlwaysAppends(url) == RStripSlash(url) \o ReviewsSuffix

\* src/src/collect_reviews.py 147-148, src/collect_reviews.py 60-61
ReviewsUrl(url) ==
    IF ~EndsWith(url, ReviewsSuffix)
    THEN RStripSlash(url) \o ReviewsSuffix
    ELSE url

Asked(by) == \E n \in 1..Len(url_requested) : url_requested[n].by = by

UrlOf(by) ==
    url_requested[CHOOSE n \in 1..Len(url_requested) :
                      url_requested[n].by = by].url

\* process_schools_csv on the row: src/src/collect_reviews.py 139, 146-151
ScraperRequest ==
    /\ ~Asked("process_schools_csv")
    /\ url_requested' =
           Append(url_requested,
                  [by |-> "process_schools_csv",
                   url |-> ReviewsUrl(StrStrip(overview_url))])
    /\ UNCHANGED overview_url
    /\ UNCHANGED exceptUrl

\* The stand-alone script on the row: src/collect_reviews.py 57-64
ScriptRequest ==
    /\ ~Asked("main")
    /\ url_requested' =
           Append(url_requested,
                  [by |-> "main",
                   url |-> ReviewsUrl(StrStrip(overview_url))])
    /\ UNCHANGED overview_url
    /\ UNCHANGED exceptUrl

\* process_schools_csv on the overview-url cell it wrote for the row, which
\* holds the URL it requested: src/src/collect_reviews.py 156, 139, 146-151
ScraperRequestAgain ==
    /\ Asked("process_schools_csv")
    /\ ~Asked("process_schools_csv again")
    /\ url_requested' =
           Append(url_requested,
                  [by |-> "process_schools_csv again",
                   url |-> ReviewsUrl(StrStrip(UrlOf("process_schools_csv")))])
    /\ UNCHANGED overview_url
    /\ UNCHANGED exceptUrl

InitUrl ==
    /\ GeoIdle
    /\ SentimentIdle
    /\ RunIdle
    /\ FipsIdle
    /\ CollectIdle
    /\ ReviewsIdle
    /\ ParseIdle
    /\ overview_url \in OverviewUrls
    /\ url_requested = <<>>

NextUrl == ScraperRequest \/ ScriptRequest \/ ScraperRequestAgain

SpecUrl == InitUrl /\ [][NextUrl]_vars

\* Every character of str from position n on is a slash.
SlashesFrom(str, n) == \A k \in n..Len(str) : str[k] = "/"

\* url is the cell without the blanks around it, or that text without its
\* trailing slashes followed by the suffix once; the former when the text
\* ends with the suffix already.
SuffixAtMostOnce(cell, url) ==
    LET text == StrStrip(cell)
        stem == Len(url) - Len(ReviewsSuffix)
    IN IF EndsWith(text, ReviewsSuffix) THEN url = text
       ELSE /\ stem >= 0
            /\ stem <= Len(text)
            /\ SubSeq(url, 1, stem) = SubSeq(text, 1, stem)
            /\ SlashesFrom(text, stem + 1)
            /\ (stem > 0 => url[stem] # "/")

\* C22 -- URL normalisation before scraping: for every overview URL, the
\* URL requested ends with /reviews/, has the suffix /reviews/ appended at
\* most once, and normalising an already normalised URL leaves it unchanged;
\* process_schools_csv and the stand-alone review script apply the same
\* rule.
C22_UrlNormalisation ==
    /\ \A n \in 1..Len(url_requested) :
          EndsWith(url_requested[n].url, ReviewsSuffix)
    /\ Asked("process_schools_csv") =>
          SuffixAtMostOnce(overview_url, UrlOf("process_schools_csv"))
    /\ Asked("main") => SuffixAtMostOnce(overview_url, UrlOf("main"))
    /\ Asked("process_schools_csv again") =>
          UrlOf("process_schools_csv again") = UrlOf("process_schools_csv")
    /\ (Asked("process_schools_csv") /\ Asked("main")) =>
          UrlOf("process_schools_csv") = UrlOf("main")

\* The cell " a/" was requested as a/reviews/ by both programs, and again
\* as a/reviews/ from the normalised URL.
C22_Witness ==
    /\ overview_url = <<" ", "a", "/">>
    /\ Len(url_requested) = 3
    /\ \A n \in 1..3 :
          url_requested[n].url = <<"a">> \o ReviewsSuffix

\* A cell that ends with /reviews/ already was requested unchanged.
C22_NormalisedWitness ==
    /\ overview_url = <<"a">> \o ReviewsSuffix
    /\ Asked("process_schools_csv")
    /\ UrlOf("process_schools_csv") = overview_url

-----------------------------------------------------------------------------
(* quantity_scraper.py: SchoolScraper.run.  The input CSV has n rows, which *)
(* pd.read_csv labels 0 .. n-1; `missing` are the labels of the rows        *)
(* without a universal-id or an overview-url.  The school of a row is       *)
(* known by the row's label.                                                *)

SAVE_BATCH_SIZE == 100

MaxRunRows == 101       \* rows of the input CSV
MaxMissing == 2         \* first rows of the CSV that may miss an id or URL

\* The inputs: long enough for a batch to fill.
RunInputs ==
    {[n |-> n, missing |-> m] :
        n \in (SAVE_BATCH_SIZE - 1)..MaxRunRows,
        m \in SUBSET (0..(MaxMissing - 1))}

\* quantity_scraper.py 482: df[[...]].dropna() keeps the labels of the rows
\* it keeps.
urls(input) == SortedSeq({i \in 0..(input.n - 1) : i \notin input.missing})

\* quantity_scraper.py 492: (i + 1) % CONFIG.SAVE_BATCH_SIZE == 0, i the
\* label of the row
BatchIsDue(i) == (i + 1) % SAVE_BATCH_SIZE = 0

\* One turn of the loop: quantity_scraper.py 487-495
ScrapeNext ==
    /\ run_pc = "loop"
    /\ run_pos < Len(urls(run_input))
    /\ LET i == urls(run_input)[run_pos + 1]
           processing == <<"Processing school", i + 1, Len(urls(run_input))>>
       IN /\ all_data' = all_data \cup {i}
          /\ IF BatchIsDue(i)
             THEN /\ run_file' = [kind |-> "json", ids |-> all_data']
                  /\ run_log' = run_log \o
                         <<processing, <<"Saved progress", i + 1, 0>> >>
             ELSE /\ UNCHANGED run_file
                  /\ run_log' = Append(run_log, processing)
    /\ run_pos' = run_pos + 1
    /\ UNCHANGED <<run_pc, run_input>>
    /\ UNCHANGED exceptRun

\* quantity_scraper.py 497-501
FinishRun ==
    /\ run_pc = "loop"
    /\ run_pos = Len(urls(run_input))
    /\ run_file' = [kind |-> "csv", ids |-> all_data]
    /\ run_log' = Append(run_log, <<"Scraping completed successfully", 0, 0>>)
    /\ run_pc' = "done"
    /\ UNCHANGED <<run_input, run_pos, all_data>>
    /\ UNCHANGED exceptRun

\* quantity_scraper.py 481-485
InitRun ==
    /\ GeoIdle
    /\ SentimentIdle
    /\ FipsIdle
    /\ CollectIdle
    /\ ReviewsIdle
    /\ ParseIdle
    /\ UrlIdle
    /\ run_pc = "loop"
    /\ run_input \in RunInputs
    /\ run_pos = 0
    /\ all_data = {}
    /\ run_file = [kind |-> "none", ids |-> {}]
    /\ run_log = << <<"Starting to scrape", Len(urls(run_input)), 0>> >>

NextRun == ScrapeNext \/ FinishRun

SpecRun == InitRun /\ [][NextRun]_vars


\* The number of schools run has processed.
Processed == run_pos

\* The schools processed when the n-th message was logged.
ProcessedAt(n) ==
    Cardinality({k \in 1..n : run_log[k][1] = "Processing school"})

\* Right after a school was processed and the count of schools processed is
\* a positive multiple of the batch size, the file holds the data collected
\* so far and the last message is the progress message with that count; and
\* every progress message logged carries the count of schools processed.
SavedEveryBatch ==
    /\ (run_pc = "loop" /\ Processed > 0 /\ Processed % SAVE_BATCH_SIZE = 0) =>
          /\ run_file = [kind |-> "json", ids |-> all_data]
          /\ run_log[Len(run_log)] = <<"Saved progress", Processed, 0>>
    /\ \A n \in 1..Len(run_log) :
          run_log[n][1] = "Saved progress" => run_log[n][2] = ProcessedAt(n)

\* C23 -- SchoolScraper.run saves progress after every SAVE_BATCH_SIZE (100)
\* schools processed: whenever the number of schools processed so far is a
\* positive multiple of 100, the data collected so far is written to the
\* output file and the logged progress count equals the number of schools
\* actually processed, also when the input has rows with a missing id or URL
\* that are dropped before scraping.
C23_SavesEveryBatch == SavedEveryBatch

\* The same for inputs in which no row misses its id or URL.
C23_SavesEveryBatchOfCompleteInput ==
    run_input.missing = {} => SavedEveryBatch

\* 100 schools were processed from an input of 100 complete rows and the
\* progress was saved.
C23_CompleteInputWitness ==
    /\ run_input = [n |-> 100, missing |-> {}]
    /\ run_pc = "loop"
    /\ Processed = 100
    /\ run_file = [kind |-> "json", ids |-> 0..99]

-----------------------------------------------------------------------------
(* merge_data.py: clean_sentiment.  A Python value is [k, v]: an int, None, *)
(* NaN, a str, a dict (a function from the texts of its keys to values), a  *)
(* set (of the texts of its elements), or a text cell of the CSV, held as   *)
(* the sequence of the tokens of a Python expression.                       *)

MaxTokens == 5          \* tokens of a text cell

PyInt(n) == [k |-> "int", v |-> n]
PyNull == [k |-> "none", v |-> 0]
PyNaN == [k |-> "nan", v |-> 0]
PyName(s) == [k |-> "str", v |-> s]
PyDict(f) == [k |-> "dict", v |-> f]
PySet(S) == [k |-> "set", v |-> S]
TextCell(tokens) == [k |-> "text", v |-> tokens]

NumTokens == {"0", "1"}
StrTokens == {"'neg'", "'neu'", "'pos'", "'compound'"}

NumOf(token) == IF token = "0" THEN 0 ELSE 1

\* merge_data.py 133, 135, 137
ZeroScores == PyDict([key \in StrTokens |-> PyInt(0)])

\* What the parser returns: a value and the tokens after it, or a failure.
Parsed(val, rest) == [ok |-> TRUE, val |-> val, rest |-> rest]
ParseError == [ok |-> FALSE, val |-> PyNull, rest |-> <<>>]

\* hash(val) raises TypeError for a dict and for a set.
Hashable(val) == val.k \notin {"dict", "set"}

\* The text a key or element is known by.
KeyText(val) ==
    CASE val.k = "int" -> IF val.v = 0 THEN "0" ELSE "1"
      [] val.k = "none" -> "None"
      [] OTHER -> val.v

RECURSIVE ParseValue(_)
RECURSIVE ParseBraces(_, _, _, _)

\* The display after its opening brace: `mode` is "any" before the first
\* item, then "dict" or "set"; `dict` and `elems` are the items so far.  A
\* later value of a key replaces an earlier one; a comma may end the items.
ParseBraces(tokens, mode, dict, elems) ==
    IF Len(tokens) = 0 THEN ParseError
    ELSE IF Head(tokens) = "}"
    THEN Parsed(IF mode = "set" THEN PySet(elems) ELSE PyDict(dict),
                Tail(tokens))
    ELSE LET key == ParseValue(tokens)
         IN IF ~key.ok \/ ~Hashable(key.val) THEN ParseError
            ELSE IF Len(key.rest) > 0 /\ Head(key.rest) = ":"
            THEN LET val == ParseValue(Tail(key.rest))
                 IN IF mode = "set" \/ ~val.ok \/ Len(val.rest) = 0
                    THEN ParseError
                    ELSE LET d == (KeyText(key.val) :> val.val) @@ dict
                         IN IF Head(val.rest) = ","
                            THEN IF Len(val.rest) > 1 /\ val.rest[2] = ","
                                 THEN ParseError
                                 ELSE ParseBraces(Tail(val.rest), "dict", d,
                                                  elems)
                            ELSE IF Head(val.rest) = "}"
                            THEN Parsed(PyDict(d), Tail(val.rest))
                            ELSE ParseError
            ELSE IF mode = "dict" \/ Len(key.rest) = 0 THEN ParseError
            ELSE LET e == elems \cup {KeyText(key.val)}
                 IN IF Head(key.rest) = ","
                    THEN IF Len(key.rest) > 1 /\ key.rest[2] = ","
                         THEN ParseError
                         ELSE ParseBraces(Tail(key.rest), "set", dict, e)
                    ELSE IF Head(key.rest) = "}"
                    THEN Parsed(PySet(e), Tail(key.rest))
                    ELSE ParseError

\* One literal at the head of the tokens.
ParseValue(tokens) ==
    IF Len(tokens) = 0 THEN ParseError
    ELSE LET t == Head(tokens)
         IN CASE t \in NumTokens -> Parsed(PyInt(NumOf(t)), Tail(tokens))
              [] t = "None" -> Parsed(PyNull, Tail(tokens))
              [] t \in StrTokens -> Parsed(PyName(t), Tail(tokens))
              [] t = "{" -> ParseBraces(Tail(tokens), "any", <<>>, {})
              [] OTHER -> ParseError

\* ast.literal_eval(x): the value of the text when it is one literal, an
\* exception otherwise.
literal_eval(tokens) ==
    LET r == ParseValue(tokens)
    IN IF r.ok /\ Len(r.rest) = 0 THEN r ELSE ParseError

\* merge_data.py 123-137
clean_sentiment(x) ==
    IF x.k = "dict" THEN x
    ELSE IF x.k = "text"
    THEN IF literal_eval(x.v).ok THEN literal_eval(x.v).val ELSE ZeroScores
    ELSE IF x.k = "nan" \/ x.k = "none" THEN ZeroScores
    ELSE ZeroScores

\* str(scores) of the scores analyze_sentiment returns, as
\* process_schools_csv writes it: collect_reviews.py 164-170
ScoresText(neg, neu, pos, compound) ==
    <<"{", "'neg'", ":", neg, ",", "'neu'", ":", neu, ",", "'pos'", ":", pos,
      ",", "'compound'", ":", compound, "}">>

ScoresTexts ==
    {ScoresText(a, b, c, d) : a \in NumTokens, b \in {"0"}, c \in NumTokens,
                              d \in {"0"}}

\* The tokens of the texts tried exhaustively.
TextTokens == {"{", "}", "'neg'", ":", "0", "None"}

SentimentCells ==
    {TextCell(t) : t \in SeqsUpTo(TextTokens, 1, MaxTokens)} \cup
    {TextCell(t) : t \in ScoresTexts} \cup
    {TextCell(<<"{", "'neg'", ":", "0", ",", "}">>),
     TextCell(<<"{", "0", ",", "None", "}">>)} \cup
    {PyNaN, PyNull, PyInt(1), ZeroScores,
     PyDict([key \in StrTokens |-> PyInt(1)])}

\* merge_data.py 139: one cell of the column
CleanSentiment ==
    /\ sentiment_pc = "apply"
    /\ cleaned' = clean_sentiment(sentiment_cell)
    /\ sentiment_pc' = "done"
    /\ UNCHANGED sentiment_cell
    /\ UNCHANGED exceptSentiment

InitSentiment ==
    /\ GeoIdle
    /\ FipsIdle
    /\ CollectIdle
    /\ ReviewsIdle
    /\ ParseIdle
    /\ UrlIdle
    /\ RunIdle
    /\ sentiment_pc = "apply"
    /\ sentiment_cell \in SentimentCells
    /\ cleaned = PyNaN

NextSentiment == CleanSentiment

SpecSentiment == InitSentiment /\ [][NextSentiment]_vars

\* A dictionary with the four keys neg, neu, pos, compound.
IsScores(val) == val.k = "dict" /\ DOMAIN val.v = StrTokens

\* What each branch of clean_sentiment returns.
BranchResults ==
    sentiment_pc = "done" =>
        /\ sentiment_cell.k = "dict" => cleaned = sentiment_cell
        /\ (sentiment_cell.k = "text" /\ literal_eval(sentiment_cell.v).ok) =>
              cleaned = literal_eval(sentiment_cell.v).val
        /\ (sentiment_cell.k = "text" /\ ~literal_eval(sentiment_cell.v).ok) =>
              cleaned = ZeroScores
        /\ sentiment_cell.k \notin {"dict", "text"} => cleaned = ZeroScores

\* C24 -- clean_sentiment converts every sentiment_scores cell to a
\* dictionary with the four keys neg, neu, pos, compound: a dict is returned
\* unchanged, a string gives its parsed literal, a missing value, an
\* unparsable string or another type gives the all-zero dictionary; the
\* result is a dictionary for every input.
C24_AlwaysScoresDictionary ==
    /\ BranchResults
    /\ sentiment_pc = "done" => IsScores(cleaned)

\* The branches alone return what the claim says of each.
C24_BranchResults == BranchResults

\* The result is a dictionary, whatever its keys.
C24_AlwaysDictionary == sentiment_pc = "done" => cleaned.k = "dict"

\* For the cells process_schools_csv writes, an empty field or the text of
\* the scores, the result is a dictionary with the four keys.
C24_ScoresOfWrittenCells ==
    (/\ sentiment_pc = "done"
     /\ \/ sentiment_cell = PyNaN
        \/ sentiment_cell.k = "text" /\ sentiment_cell.v \in ScoresTexts) =>
        IsScores(cleaned)

====
